---- MODULE Spec2Model ----
(***************************************************************************)
(* FlowPay backend: the idempotency middleware, the Collect, Pool and FX   *)
(* Pool state machines, the rate-lock service and the ledger gateway.      *)
(*                                                                         *)
(* The server is one asyncio event loop: the code between two awaits of a  *)
(* coroutine runs atomically, and every await is a point where another     *)
(* request may run.  Each action below is one such atomic stretch.         *)
(***************************************************************************)
EXTENDS Integers, Sequences, FiniteSets, TLC

\* ------------------------------------------------------------------ bounds
MaxReq == 3
MaxTime == 1
MaxCalls == 3
MaxLocks == 2

\* --------------------------------------------------------------- constants
NoKey == "none"
Keys == {"k1", "k2"}
Paths == {"/v1/collects", "/v1/pools"}
Methods == {"POST", "GET"}
Payers == {"alice", "bob"}
Organizer == "org"
Payee == "payee"
DemoBalance == 999999
Amounts == {30, 60, 1000000}
ExpiryTimes == {0, 5}
ContributeInputs == {<<"alice", 30>>, <<"alice", 60>>, <<"bob", 30>>}
CollectIds == {"clct_1"}
FxPoolIds == {"fxpool_1"}
CorridorIds == {"crdr_1"}
FxPoolLockMinutes == 1440
PoolIds == {"pool_1"}
Goals == {60, 90}
None == -1

VARIABLES
    now,                    \* wall clock (datetime.now)
    ledger,                 \* the Nessie ledger: every transfer call made, in order
    nessie_balance,         \* the balance field Nessie reports for each payer account
    idempotency_store,      \* _idempotency_store
    req,                    \* HTTP requests passing through the middleware
    resources,              \* resources created by the create handlers
    events,                 \* every dispatch_event call made, in order
    fake_collect_db,        \* fake_collect_db
    collectCalls,           \* approve and decline calls in progress
    fake_pool_db,           \* fake_pool_db
    fake_contributions_db,  \* fake_contributions_db
    poolCalls,              \* contribute and cancel calls in progress
    rate_lock_store,        \* rate_lock_store
    drift_report,           \* what the last check_drift call returned
    fxpool_db,              \* fxpool_db
    fxpool_contributions_db,\* fxpool_contributions_db
    fxCalls,                \* FX pool calls in progress
    corridor_db,            \* corridor_db
    corridorCalls,          \* create and remit calls in progress
    registered_webhooks,    \* registered_webhooks
    recurring_db,           \* recurring_db
    recurringCalls          \* trigger and cancel calls in progress

envVars == <<now, ledger, nessie_balance, events>>
idemVars == <<idempotency_store, req, resources>>
collectVars == <<fake_collect_db, collectCalls>>
poolVars == <<fake_pool_db, fake_contributions_db, poolCalls>>
fxVars == <<rate_lock_store, drift_report>>
fxpoolVars == <<fxpool_db, fxpool_contributions_db, fxCalls>>
corridorVars == <<corridor_db, corridorCalls>>
webhookVars == <<registered_webhooks>>
recurringVars == <<recurring_db, recurringCalls>>
vars == <<now, ledger, nessie_balance, events, idempotency_store, req, resources,
          fake_collect_db, collectCalls,
          fake_pool_db, fake_contributions_db, poolCalls,
          rate_lock_store, drift_report,
          fxpool_db, fxpool_contributions_db, fxCalls,
          corridor_db, corridorCalls, registered_webhooks,
          recurring_db, recurringCalls>>

\* ============================================================ environment
Tick ==
    /\ now < MaxTime
    /\ now' = now + 1
    /\ UNCHANGED <<ledger, nessie_balance, events>>

\* get_balance: the balance field Nessie reports, or the demo value when the
\* field is not positive or the read fails.
GetBalance(account_id, read_ok) ==
    IF read_ok /\ nessie_balance[account_id] > 0
    THEN nessie_balance[account_id]
    ELSE DemoBalance

\* transfer: one call to the ledger; the id of the transfer it created.
\* item is the position of the contribution a refund is issued for (0 otherwise).
LedgerEntry(payer, payee, amount, description, item, ok) ==
    [payer |-> payer, payee |-> payee, amount |-> amount,
     description |-> description, item |-> item, ok |-> ok]

NewTransferId == Len(ledger) + 1

\* A registered hook receives an event type if it subscribed to it or to "*".
Matches(hook, event_type) == "*" \in hook.events \/ event_type \in hook.events

\* The loop of dispatch_event from position first of registered_webhooks on: the
\* position of the next hook that is posted to, 0 when the loop ends. The loop
\* iterates the list itself, so it sees hooks registered while it runs.
NextHook(event_type, first) ==
    LET matching == {h \in first..Len(registered_webhooks) :
                        Matches(registered_webhooks[h], event_type)}
    IN  IF matching = {} THEN 0
        ELSE CHOOSE h \in matching : \A g \in matching : h <= g

\* dispatch_event up to its first await: the event is built and the first
\* matching hook, if any, is posted to. hook is the position of the hook whose
\* post is awaited (0: dispatch_event has left its loop), attempts the posts made
\* so far, raised whether an exception has left dispatch_event.
Event(type, id) ==
    [type |-> type, id |-> id, hook |-> NextHook(type, 1), attempts |-> <<>>,
     raised |-> FALSE]

\* dispatch_event has returned or raised for every event about an aggregate: the
\* calls awaiting it go on.
Dispatched(id) ==
    \A e \in DOMAIN events : events[e].id = id => events[e].hook = 0

\* The status code of a call resumed from its await of dispatch_event: no handler
\* catches an exception of dispatch_event, which would end the call with 500.
AfterDispatch(id, code) ==
    IF \E e \in DOMAIN events : events[e].id = id /\ events[e].raised
    THEN 500 ELSE code

\* ================================================= idempotency middleware
Requests == 1..MaxReq

NoBody == [kind |-> "none", id |-> 0]

NewRequest ==
    [pc |-> "new", method |-> "POST", key |-> NoKey, path |-> "/v1/collects",
     valid |-> TRUE, passthrough |-> FALSE, executed |-> FALSE,
     status |-> 0, body |-> NoBody, replayed |-> "none"]

CacheKeyIgnoringPath(key, path) == <<key, "/v1/collects">>

CacheKey(key, path) == <<key, path>>

CacheAnyStatus(status_code) == TRUE

Is2xx(status_code) == 200 <= status_code /\ status_code < 300

ReplayAs200(cached) ==
    [status |-> 200, body |-> cached.body, replayed |-> "true"]

\* The response built from a stored record.
CachedResponse(cached) ==
    [status |-> cached.status_code, body |-> cached.body, replayed |-> "true"]

\* What the route handler behind call_next answers, and whether it creates a
\* resource: the create handlers store a new object under a fresh id (201), a
\* body that fails validation is rejected before the handler runs (422), and a
\* GET lists without side effects.
HandlerCreates(method, valid) == method = "POST" /\ valid

HandlerStatus(method, valid) ==
    IF method # "POST" THEN 200 ELSE IF valid THEN 201 ELSE 422

HandlerBody(method, path, valid, fresh) ==
    IF method # "POST" THEN [kind |-> "list", id |-> 0]
    ELSE IF valid THEN [kind |-> path, id |-> fresh]
    ELSE [kind |-> "validation_error", id |-> 0]

\* dispatch up to its first await: the method and key checks and the cache lookup.
Dispatch(r, method, key, path, valid) ==
    /\ req[r].pc = "new"
    /\ IF r = 1 THEN TRUE ELSE req[r - 1].pc # "new"
    /\ LET q == [req[r] EXCEPT !.method = method, !.key = key, !.path = path,
                               !.valid = valid]
       IN  IF method # "POST" \/ key = NoKey
           THEN req' = [req EXCEPT ![r] = [q EXCEPT !.pc = "handler",
                                                    !.passthrough = TRUE]]
           ELSE IF CacheKey(key, path) \in DOMAIN idempotency_store
           THEN LET resp == CachedResponse(idempotency_store[CacheKey(key, path)])
                IN  req' = [req EXCEPT ![r] = [q EXCEPT !.pc = "done",
                                                        !.status = resp.status,
                                                        !.body = resp.body,
                                                        !.replayed = resp.replayed]]
           ELSE req' = [req EXCEPT ![r] = [q EXCEPT !.pc = "handler"]]
    /\ UNCHANGED <<idempotency_store, resources, corridorVars, webhookVars,
                   recurringVars>>
    /\ UNCHANGED <<envVars, collectVars, poolVars, fxVars, fxpoolVars, corridorVars, webhookVars,
                   recurringVars>>

\* await call_next(request): the route handler runs.
CallNext(r) ==
    /\ req[r].pc = "handler"
    /\ LET q == req[r]
           fresh == Len(resources) + 1
       IN  /\ resources' = IF HandlerCreates(q.method, q.valid)
                           THEN Append(resources, q.path)
                           ELSE resources
           /\ req' = [req EXCEPT ![r] =
                        [q EXCEPT !.pc = IF q.passthrough THEN "done" ELSE "resumed",
                                  !.executed = TRUE,
                                  !.status = HandlerStatus(q.method, q.valid),
                                  !.body = HandlerBody(q.method, q.path, q.valid, fresh)]]
    /\ UNCHANGED idempotency_store
    /\ UNCHANGED <<envVars, collectVars, poolVars, fxVars, fxpoolVars, corridorVars, webhookVars,
                   recurringVars>>

\* dispatch after call_next has returned: a 2xx response is stored and returned
\* with the replay header set to false, any other response is returned as it is.
Respond(r) ==
    /\ req[r].pc = "resumed"
    /\ LET q == req[r]
       IN  IF Is2xx(q.status)
           THEN /\ idempotency_store' =
                      (CacheKey(q.key, q.path) :>
                          [body |-> q.body, status_code |-> q.status])
                      @@ idempotency_store
                /\ req' = [req EXCEPT ![r] = [q EXCEPT !.pc = "done",
                                                       !.replayed = "false"]]
           ELSE /\ req' = [req EXCEPT ![r] = [q EXCEPT !.pc = "done"]]
                /\ UNCHANGED idempotency_store
    /\ UNCHANGED resources
    /\ UNCHANGED <<envVars, collectVars, poolVars, fxVars, fxpoolVars, corridorVars, webhookVars,
                   recurringVars>>

\* ==================================================================== Collect
Calls == 1..MaxCalls

\* balance is the local of approve_collect that holds what get_balance returned.
IdleCall ==
    [pc |-> "idle", op |-> "none", id |-> "none", code |-> 0, balance |-> None]

\* Calls start in index order (the calls are interchangeable).
MayStart(calls, c) ==
    /\ calls[c].pc = "idle"
    /\ IF c = 1 THEN TRUE ELSE calls[c - 1].pc # "idle"

Finished(call, code) ==
    [pc |-> "done", op |-> call.op, id |-> call.id, code |-> code,
     balance |-> call.balance]

create_collect(id, amount, payer, expires_at) ==
    /\ id \notin DOMAIN fake_collect_db
    /\ fake_collect_db' =
          (id :> [status |-> "pending", amount |-> amount,
                  payer_account_id |-> payer, payee_account_id |-> Payee,
                  expires_at |-> expires_at, approved_at |-> None,
                  declined_at |-> None, nessie_transfer_id |-> None])
          @@ fake_collect_db
    /\ UNCHANGED <<collectCalls, envVars, idemVars, poolVars, fxVars, fxpoolVars,
                   corridorVars, webhookVars,
                   recurringVars>>

MayApprove(collect) == collect.status = "pending"

IsExpiredAfterGrace(collect) == now > collect.expires_at + 1

\* datetime.now(timezone.utc) > collect.expires_at
IsExpired(collect) == now > collect.expires_at

\* approve_collect up to its first await: the lookup, the status check and the
\* expiry check.
approve_start(c, id) ==
    /\ MayStart(collectCalls, c)
    /\ LET call == [collectCalls[c] EXCEPT !.op = "approve", !.id = id]
       IN  IF id \notin DOMAIN fake_collect_db
           THEN /\ collectCalls' = [collectCalls EXCEPT ![c] = Finished(call, 404)]
                /\ UNCHANGED <<fake_collect_db, events>>
           ELSE IF ~MayApprove(fake_collect_db[id])
           THEN /\ collectCalls' = [collectCalls EXCEPT ![c] = Finished(call, 400)]
                /\ UNCHANGED <<fake_collect_db, events>>
           ELSE IF IsExpired(fake_collect_db[id])
           THEN /\ fake_collect_db' = [fake_collect_db EXCEPT ![id].status = "expired"]
                /\ events' = Append(events, Event("collect.expired", id))
                /\ collectCalls' = [collectCalls EXCEPT ![c] =
                                        [call EXCEPT !.pc = "dispatch_expired"]]
           ELSE /\ collectCalls' = [collectCalls EXCEPT ![c] =
                                        [call EXCEPT !.pc = "get_balance"]]
                /\ UNCHANGED <<fake_collect_db, events>>
    /\ UNCHANGED <<now, ledger, nessie_balance, idemVars, poolVars, fxVars,
                   fxpoolVars, corridorVars, webhookVars,
                   recurringVars>>

InsufficientOnlyIfEmpty(balance, amount) == balance <= 0

\* balance < collect.amount
InsufficientFunds(balance, amount) == balance < amount

\* get_balance has returned: the funds check, then the transfer is requested.
approve_balance(c, read_ok) ==
    /\ collectCalls[c].pc = "get_balance"
    /\ LET call == collectCalls[c]
           collect == fake_collect_db[call.id]
           balance == GetBalance(collect.payer_account_id, read_ok)
       IN  collectCalls' = [collectCalls EXCEPT ![c] =
                              IF InsufficientFunds(balance, collect.amount)
                              THEN Finished([call EXCEPT !.balance = balance], 402)
                              ELSE [call EXCEPT !.pc = "transfer",
                                                !.balance = balance]]
    /\ UNCHANGED <<fake_collect_db, envVars, idemVars, poolVars, fxVars, fxpoolVars,
                   corridorVars, webhookVars,
                   recurringVars>>

AfterTransferOptimistic(collect, transfer_ok, txn_id) ==
    [collect EXCEPT !.status = "approved",
                    !.approved_at = now,
                    !.nessie_transfer_id = txn_id]

\* The collect after the transfer call: a transfer that raised leaves the record
\* alone (the handler raises 500 before its writes), one that returned is recorded.
AfterTransfer(collect, transfer_ok, txn_id) ==
    IF transfer_ok
    THEN [collect EXCEPT !.status = "approved",
                         !.approved_at = now,
                         !.nessie_transfer_id = txn_id]
    ELSE collect

\* transfer has returned or raised: on success the collect becomes approved.
approve_transfer(c, transfer_ok) ==
    /\ collectCalls[c].pc = "transfer"
    /\ LET call == collectCalls[c]
           collect == fake_collect_db[call.id]
       IN  /\ ledger' = Append(ledger,
                    LedgerEntry(collect.payer_account_id, collect.payee_account_id,
                                collect.amount, <<"collect", call.id>>, 0,
                                transfer_ok))
           /\ fake_collect_db' =
                 [fake_collect_db EXCEPT ![call.id] =
                    AfterTransfer(collect, transfer_ok, NewTransferId)]
           /\ IF transfer_ok
              THEN /\ events' = Append(events, Event("collect.approved", call.id))
                   /\ collectCalls' = [collectCalls EXCEPT ![c] =
                                           [call EXCEPT !.pc = "dispatch_approved"]]
              ELSE /\ collectCalls' = [collectCalls EXCEPT ![c] = Finished(call, 500)]
                   /\ UNCHANGED events
    /\ UNCHANGED <<now, nessie_balance, idemVars, poolVars, fxVars, fxpoolVars,
                   corridorVars, webhookVars,
                   recurringVars>>

\* dispatch_event has returned: approve returns the collect, or raises 410.
approve_return(c) ==
    /\ collectCalls[c].pc \in {"dispatch_expired", "dispatch_approved"}
    /\ Dispatched(collectCalls[c].id)
    /\ collectCalls' = [collectCalls EXCEPT ![c] =
                          Finished(@, AfterDispatch(@.id,
                              IF @.pc = "dispatch_expired" THEN 410 ELSE 200))]
    /\ UNCHANGED <<fake_collect_db, envVars, idemVars, poolVars, fxVars, fxpoolVars,
                   corridorVars, webhookVars,
                   recurringVars>>

\* decline_collect up to its await of dispatch_event.
decline_start(c, id) ==
    /\ MayStart(collectCalls, c)
    /\ LET call == [collectCalls[c] EXCEPT !.op = "decline", !.id = id]
       IN  IF id \notin DOMAIN fake_collect_db
           THEN /\ collectCalls' = [collectCalls EXCEPT ![c] = Finished(call, 404)]
                /\ UNCHANGED <<fake_collect_db, events>>
           ELSE IF fake_collect_db[id].status # "pending"
           THEN /\ collectCalls' = [collectCalls EXCEPT ![c] = Finished(call, 400)]
                /\ UNCHANGED <<fake_collect_db, events>>
           ELSE /\ fake_collect_db' = [fake_collect_db EXCEPT
                                          ![id].status = "declined",
                                          ![id].declined_at = now]
                /\ events' = Append(events, Event("collect.declined", id))
                /\ collectCalls' = [collectCalls EXCEPT ![c] =
                                        [call EXCEPT !.pc = "dispatch_declined"]]
    /\ UNCHANGED <<now, ledger, nessie_balance, idemVars, poolVars, fxVars,
                   fxpoolVars, corridorVars, webhookVars,
                   recurringVars>>

decline_return(c) ==
    /\ collectCalls[c].pc = "dispatch_declined"
    /\ Dispatched(collectCalls[c].id)
    /\ collectCalls' = [collectCalls EXCEPT ![c] =
                          Finished(@, AfterDispatch(@.id, 200))]
    /\ UNCHANGED <<fake_collect_db, envVars, idemVars, poolVars, fxVars, fxpoolVars,
                   corridorVars, webhookVars,
                   recurringVars>>

TickCollect ==
    /\ Tick
    /\ UNCHANGED <<idemVars, collectVars, poolVars, fxVars, fxpoolVars, corridorVars, webhookVars,
                   recurringVars>>

\* ======================================================================= Pool
IdlePoolCall ==
    [pc |-> "idle", op |-> "none", id |-> "none", code |-> 0,
     payer |-> "none", amount |-> 0, idx |-> 0]

\* A call that has returned or raised: its frame (payer, amount, loop index) is gone.
PoolFinished(call, code) ==
    [IdlePoolCall EXCEPT !.pc = "done", !.op = call.op, !.id = call.id,
                         !.code = code]

create_pool(id, goal_amount, deadline) ==
    /\ id \notin DOMAIN fake_pool_db
    /\ fake_pool_db' =
          (id :> [status |-> "collecting", goal_amount |-> goal_amount,
                  collected_amount |-> 0, organizer_account_id |-> Organizer,
                  payee_account_id |-> Payee, participant_count |-> 0,
                  contributions_count |-> 0, deadline |-> deadline,
                  funded_at |-> None, nessie_transfer_ids |-> <<>>,
                  refund_ids |-> <<>>])
          @@ fake_pool_db
    /\ fake_contributions_db' = (id :> <<>>) @@ fake_contributions_db
    /\ UNCHANGED <<poolCalls, envVars, idemVars, collectVars, fxVars, fxpoolVars,
                   corridorVars, webhookVars,
                   recurringVars>>

Participants(contributions) ==
    {contributions[i].payer_account_id : i \in 1..Len(contributions)}

GoalReached(pool) == pool.collected_amount >= pool.goal_amount

\* contribute_to_pool up to its first await: the lookup, the funded check and
\* the deadline check.
contribute_start(c, id, payer, amount) ==
    /\ MayStart(poolCalls, c)
    /\ LET call == [poolCalls[c] EXCEPT !.op = "contribute", !.id = id,
                                         !.payer = payer, !.amount = amount]
       IN  poolCalls' = [poolCalls EXCEPT ![c] =
             IF id \notin DOMAIN fake_pool_db THEN PoolFinished(call, 404)
             ELSE IF fake_pool_db[id].status = "funded" THEN PoolFinished(call, 409)
             ELSE IF now > fake_pool_db[id].deadline THEN PoolFinished(call, 422)
             ELSE [call EXCEPT !.pc = "get_balance"]]
    /\ UNCHANGED <<fake_pool_db, fake_contributions_db, envVars, idemVars, collectVars, fxVars,
                   fxpoolVars, corridorVars, webhookVars,
                   recurringVars>>

\* get_balance has returned: the funds check, then the transfer is requested.
contribute_balance(c, read_ok) ==
    /\ poolCalls[c].pc = "get_balance"
    /\ LET call == poolCalls[c]
       IN  poolCalls' = [poolCalls EXCEPT ![c] =
             IF GetBalance(call.payer, read_ok) < call.amount
             THEN PoolFinished(call, 402)
             ELSE [call EXCEPT !.pc = "transfer"]]
    /\ UNCHANGED <<fake_pool_db, fake_contributions_db, envVars, idemVars, collectVars, fxVars,
                   fxpoolVars, corridorVars, webhookVars,
                   recurringVars>>

ContributedOverwriting(pool, contributions, amount) ==
    [pool EXCEPT !.collected_amount = amount,
                 !.participant_count = Cardinality(Participants(contributions)),
                 !.contributions_count = @ + 1]

\* The pool after a contribution of amount has been appended to contributions.
Contributed(pool, contributions, amount) ==
    [pool EXCEPT !.collected_amount = @ + amount,
                 !.participant_count = Cardinality(Participants(contributions)),
                 !.contributions_count = @ + 1]

\* The payer's transfer has returned or raised: on success the contribution is
\* recorded, and a pool that has reached its goal becomes funded and requests
\* the settlement transfer of the amount collected so far.
contribute_transfer(c, transfer_ok) ==
    /\ poolCalls[c].pc = "transfer"
    /\ LET call == poolCalls[c]
           id == call.id
           contributions == Append(fake_contributions_db[id],
                                   [payer_account_id |-> call.payer,
                                    amount |-> call.amount,
                                    nessie_transfer_id |-> NewTransferId])
           pool == Contributed(fake_pool_db[id], contributions, call.amount)
       IN  /\ ledger' = Append(ledger,
                    LedgerEntry(call.payer, fake_pool_db[id].organizer_account_id,
                                call.amount, <<"pool_contribution", id>>, 0,
                                transfer_ok))
           /\ IF ~transfer_ok
              THEN /\ poolCalls' = [poolCalls EXCEPT ![c] = PoolFinished(call, 500)]
                   /\ UNCHANGED <<fake_pool_db, fake_contributions_db, events>>
              ELSE /\ fake_contributions_db' =
                         [fake_contributions_db EXCEPT ![id] = contributions]
                   /\ IF GoalReached(pool)
                      THEN /\ fake_pool_db' = [fake_pool_db EXCEPT ![id] =
                                 [pool EXCEPT !.status = "funded", !.funded_at = now]]
                           /\ poolCalls' = [poolCalls EXCEPT ![c] =
                                 [call EXCEPT !.pc = "settle",
                                              !.amount = pool.collected_amount]]
                           /\ UNCHANGED events
                      ELSE /\ fake_pool_db' = [fake_pool_db EXCEPT ![id] = pool]
                           /\ events' = Append(events,
                                 Event("pool.contribution_received", id))
                           /\ poolCalls' = [poolCalls EXCEPT ![c] =
                                 [call EXCEPT !.pc = "dispatch"]]
    /\ UNCHANGED <<now, nessie_balance, idemVars, collectVars, fxVars, fxpoolVars,
                   corridorVars, webhookVars,
                   recurringVars>>

SettledOrMarked(pool, transfer_ok, txn_id) ==
    [pool EXCEPT !.nessie_transfer_ids =
                    Append(@, IF transfer_ok THEN txn_id ELSE 0 - txn_id)]

\* The pool after its settlement transfer: the id is appended to
\* nessie_transfer_ids; the except branch is a bare pass.
Settled(pool, transfer_ok, txn_id) ==
    IF transfer_ok
    THEN [pool EXCEPT !.nessie_transfer_ids = Append(@, txn_id)]
    ELSE pool

\* The settlement transfer has returned or raised; a failure is swallowed.
contribute_settle(c, transfer_ok) ==
    /\ poolCalls[c].pc = "settle"
    /\ LET call == poolCalls[c]
           id == call.id
           pool == fake_pool_db[id]
       IN  /\ ledger' = Append(ledger,
                    LedgerEntry(pool.organizer_account_id, pool.payee_account_id,
                                call.amount, <<"pool_settlement", id>>, 0,
                                transfer_ok))
           /\ fake_pool_db' = [fake_pool_db EXCEPT ![id] =
                                  Settled(pool, transfer_ok, NewTransferId)]
           /\ events' = Append(events, Event("pool.goal_reached", id))
           /\ poolCalls' = [poolCalls EXCEPT ![c] = [call EXCEPT !.pc = "dispatch"]]
    /\ UNCHANGED <<fake_contributions_db, now, nessie_balance, idemVars, collectVars, fxVars,
                   fxpoolVars, corridorVars, webhookVars,
                   recurringVars>>

\* dispatch_event has returned: the call returns the pool.
pool_return(c) ==
    /\ poolCalls[c].pc = "dispatch"
    /\ Dispatched(poolCalls[c].id)
    /\ poolCalls' = [poolCalls EXCEPT ![c] =
                       PoolFinished(@, AfterDispatch(@.id, 200))]
    /\ UNCHANGED <<fake_pool_db, fake_contributions_db, envVars, idemVars, collectVars, fxVars,
                   fxpoolVars, corridorVars, webhookVars,
                   recurringVars>>

RefundLoopFirstOnly(call, id, done_items, contributions) ==
    IF done_items = 0 /\ Len(contributions) > 0
    THEN [call EXCEPT !.pc = "refund", !.idx = 1]
    ELSE [call EXCEPT !.pc = "dispatch", !.idx = done_items]

\* The refund loop of cancel_pool at the top of an iteration: the next stored
\* contribution is refunded, or the loop ends and pool.cancelled is dispatched.
\* The loop iterates the stored list itself, so it sees what is appended to it.
RefundLoop(call, id, done_items, contributions) ==
    IF done_items < Len(contributions)
    THEN [call EXCEPT !.pc = "refund", !.idx = done_items + 1]
    ELSE [call EXCEPT !.pc = "dispatch", !.idx = done_items]

MayCancelUnlessFunded(pool) == pool.status # "funded"

\* cancel_pool goes on only for a collecting pool.
MayCancel(pool) == pool.status = "collecting"

\* cancel_pool up to its first await: the lookup, the status check, the status
\* write and the entry into the refund loop.
cancel_start(c, id) ==
    /\ MayStart(poolCalls, c)
    /\ LET call == [poolCalls[c] EXCEPT !.op = "cancel", !.id = id]
       IN  IF id \notin DOMAIN fake_pool_db
           THEN /\ poolCalls' = [poolCalls EXCEPT ![c] = PoolFinished(call, 404)]
                /\ UNCHANGED <<fake_pool_db, events>>
           ELSE IF ~MayCancel(fake_pool_db[id])
           THEN /\ poolCalls' = [poolCalls EXCEPT ![c] = PoolFinished(call, 400)]
                /\ UNCHANGED <<fake_pool_db, events>>
           ELSE LET next == RefundLoop(call, id, 0, fake_contributions_db[id])
                IN  /\ fake_pool_db' = [fake_pool_db EXCEPT
                                           ![id].status = "cancelled",
                                           ![id].refund_ids = <<>>]
                    /\ poolCalls' = [poolCalls EXCEPT ![c] = next]
                    /\ events' = IF next.pc = "dispatch"
                                 THEN Append(events, Event("pool.cancelled", id))
                                 ELSE events
    /\ UNCHANGED <<fake_contributions_db, now, ledger, nessie_balance,
                   idemVars, collectVars, fxVars, fxpoolVars, corridorVars, webhookVars,
                   recurringVars>>

\* A refund transfer has returned or raised: its id, or a failure marker, is
\* recorded and the loop goes on.
cancel_refund(c, transfer_ok) ==
    /\ poolCalls[c].pc = "refund"
    /\ LET call == poolCalls[c]
           id == call.id
           pool == fake_pool_db[id]
           contribution == fake_contributions_db[id][call.idx]
           next == RefundLoop(call, id, call.idx, fake_contributions_db[id])
       IN  /\ ledger' = Append(ledger,
                    LedgerEntry(pool.organizer_account_id,
                                contribution.payer_account_id, contribution.amount,
                                <<"pool_refund", id>>, call.idx, transfer_ok))
           /\ fake_pool_db' = [fake_pool_db EXCEPT ![id].refund_ids =
                 Append(@, IF transfer_ok THEN NewTransferId ELSE 0 - NewTransferId)]
           /\ poolCalls' = [poolCalls EXCEPT ![c] = next]
           /\ events' = IF next.pc = "dispatch"
                        THEN Append(events, Event("pool.cancelled", id))
                        ELSE events
    /\ UNCHANGED <<fake_contributions_db, now, nessie_balance, idemVars, collectVars, fxVars,
                   fxpoolVars, corridorVars, webhookVars,
                   recurringVars>>

TickPool ==
    /\ Tick
    /\ UNCHANGED <<idemVars, collectVars, poolVars, fxVars, fxpoolVars, corridorVars, webhookVars,
                   recurringVars>>

\* ================================================================ FX service
\* A rate is the exact fraction n / d (the code computes in floating point).
Rat(n, d) == [n |-> n, d |-> d]

One == Rat(1, 1)

RatDiv(a, b) == Rat(a.n * b.d, a.d * b.n)

Abs(x) == IF x < 0 THEN 0 - x ELSE x

FALLBACK_RATES_TO_USD ==
    [usd |-> Rat(1, 1), eur |-> Rat(108, 100), gbp |-> Rat(127, 100),
     inr |-> Rat(1202, 100000), jpy |-> Rat(66, 10000), cad |-> Rat(74, 100),
     aud |-> Rat(64, 100), cny |-> Rat(138, 1000), sgd |-> Rat(74, 100),
     mxn |-> Rat(51, 1000)]

FallbackToUsdOrZero(currency) ==
    IF currency \in DOMAIN FALLBACK_RATES_TO_USD
    THEN FALLBACK_RATES_TO_USD[currency]
    ELSE Rat(0, 1)

\* FALLBACK_RATES_TO_USD.get(currency, 1.0)
FallbackToUsd(currency) ==
    IF currency \in DOMAIN FALLBACK_RATES_TO_USD
    THEN FALLBACK_RATES_TO_USD[currency]
    ELSE One

Lower(currency) ==
    CASE currency = "EUR" -> "eur"
      [] currency = "USD" -> "usd"
      [] OTHER -> currency

\* What the rate API may answer to one request: a rate, a rate of 0, or nothing
\* (an error, a timeout, a response without the target currency). The rates
\* offered are multiples of 0.25, which a float holds exactly, so that the
\* rational arithmetic below gives what the float arithmetic of the code gives.
Unavailable == [ok |-> FALSE, rate |-> Rat(0, 1)]

OracleAnswers ==
    {[ok |-> TRUE, rate |-> Rat(n, 4)] : n \in {0, 4, 5, 6}}
        \cup {Unavailable}

\* get_live_rate, given the rate API's answer.
GetLiveRate(source_currency, target_currency, answer) ==
    LET src == Lower(source_currency)
        tgt == Lower(target_currency)
    IN  IF src = tgt THEN One
        ELSE IF answer.ok /\ answer.rate.n # 0 THEN answer.rate
        ELSE RatDiv(FallbackToUsd(src), FallbackToUsd(tgt))

\* int(x) for x = num / den >= 0.
TruncDiv(num, den) == num \div den

\* The lock lock_rate stores, given the rate get_live_rate returned.
LockRate(lock_id, source_currency, target_currency, amount_target, lock_duration_minutes, max_drift_pct, live_rate) ==
    LET rate == IF live_rate.n = 0 THEN One ELSE live_rate
    IN  [id |-> lock_id,
         source_currency |-> Lower(source_currency),
         target_currency |-> Lower(target_currency),
         rate |-> rate,
         amount_target_cents |-> amount_target,
         amount_source_cents |-> TruncDiv(amount_target * rate.d, rate.n),
         max_drift_pct |-> max_drift_pct,
         locked_at |-> now,
         expires_at |-> now + lock_duration_minutes,
         status |-> "active"]

NewLockId == Cardinality(DOMAIN rate_lock_store) + 1

\* round(x, 4) of x = num / den >= 0 in units of 0.0001, ties to even.
Round4(num, den) ==
    LET q == (num * 10000) \div den
        r == (num * 10000) % den
    IN  IF 2 * r > den \/ (2 * r = den /\ q % 2 = 1) THEN q + 1 ELSE q

DriftedInclusive(deviation_num, deviation_den, max_drift_pct) ==
    deviation_num >= max_drift_pct * deviation_den

\* drift_pct > max_drift_pct for drift_pct = deviation_num / deviation_den.
Drifted(deviation_num, deviation_den, max_drift_pct) ==
    deviation_num > max_drift_pct * deviation_den

\* What check_drift returns for a stored lock, given the current rate.
CheckDrift(lock, current_rate) ==
    LET locked_rate == lock.rate
        num == Abs(current_rate.n * locked_rate.d - locked_rate.n * current_rate.d)
                  * 100
        den == locked_rate.n * current_rate.d
    IN  [lock_id |-> lock.id,
         locked_rate |-> locked_rate,
         current_rate |-> current_rate,
         drift_pct |-> Round4(num, den),
         max_drift_pct |-> lock.max_drift_pct,
         drifted |-> Drifted(num, den, lock.max_drift_pct),
         error |-> "none"]

LockNotFound ==
    [lock_id |-> None, locked_rate |-> One, current_rate |-> One, drift_pct |-> 0,
     max_drift_pct |-> 0, drifted |-> FALSE, error |-> "Lock not found"]

NoReport == [LockNotFound EXCEPT !.error = "no call yet"]

\* lock_rate: the rate is fetched, the lock is computed and stored.
lock_rate(source_currency, target_currency, amount_target, lock_duration_minutes, max_drift_pct, answer) ==
    /\ Cardinality(DOMAIN rate_lock_store) < MaxLocks
    /\ rate_lock_store' =
          (NewLockId :> LockRate(NewLockId, source_currency, target_currency,
                                 amount_target, lock_duration_minutes, max_drift_pct,
                                 GetLiveRate(source_currency, target_currency, answer)))
          @@ rate_lock_store
    /\ UNCHANGED <<drift_report, envVars, idemVars, collectVars, poolVars,
                   fxpoolVars, corridorVars, webhookVars,
                   recurringVars>>

check_drift_marking(lock_id, answer) ==
    /\ lock_id \in DOMAIN rate_lock_store
    /\ LET lock == rate_lock_store[lock_id]
           drift == CheckDrift(lock, GetLiveRate(lock.source_currency,
                                                 lock.target_currency, answer))
       IN  /\ drift_report' = drift
           /\ rate_lock_store' =
                 [rate_lock_store EXCEPT ![lock_id].status =
                                            IF drift.drifted THEN "drifted" ELSE @]
    /\ UNCHANGED <<envVars, idemVars, collectVars, poolVars, fxpoolVars,
                   corridorVars, webhookVars,
                   recurringVars>>

\* check_drift: the lock is looked up, the current rate is fetched, the drift is
\* computed; the lock is not changed.
check_drift(lock_id, answer) ==
    /\ drift_report' =
          IF lock_id \notin DOMAIN rate_lock_store THEN LockNotFound
          ELSE LET lock == rate_lock_store[lock_id]
               IN  CheckDrift(lock, GetLiveRate(lock.source_currency,
                                                lock.target_currency, answer))
    /\ UNCHANGED <<rate_lock_store, envVars, idemVars, collectVars, poolVars,
                   fxpoolVars, corridorVars, webhookVars,
                   recurringVars>>

\* ==================================================================== FX Pool
MaxFxCalls == 2

FxCalls == 1..MaxFxCalls

IdleFxCall ==
    [pc |-> "idle", op |-> "none", id |-> "none", code |-> 0, payer |-> "none",
     currency |-> "none", amount_local |-> 0, usd_rate |-> One, amount_usd |-> 0,
     rate_lock_id |-> None, idx |-> 0, settle_amount |-> 0, reason |-> "none",
     refunds |-> <<>>]

\* A call that has returned or raised: its status code and, for the refund path,
\* the refunds list of its response.
FxFinished(call, code) ==
    [IdleFxCall EXCEPT !.pc = "done", !.op = call.op, !.id = call.id,
                       !.code = code, !.reason = call.reason,
                       !.refunds = call.refunds]

create_fxpool(id, goal_amount_usd, deadline, max_rate_drift_pct) ==
    /\ id \notin DOMAIN fxpool_db
    /\ fxpool_db' =
          (id :> [status |-> "collecting", goal_amount_usd |-> goal_amount_usd,
                  collected_usd |-> 0, organizer_account_id |-> Organizer,
                  payee_account_id |-> Payee, deadline |-> deadline,
                  max_rate_drift_pct |-> max_rate_drift_pct,
                  contributions_count |-> 0, funded_at |-> None,
                  nessie_settlement_id |-> None, currencies_collected |-> <<>>])
          @@ fxpool_db
    /\ fxpool_contributions_db' = (id :> <<>>) @@ fxpool_contributions_db
    /\ UNCHANGED <<fxCalls, envVars, idemVars, collectVars, poolVars, fxVars,
                   corridorVars, webhookVars,
                   recurringVars>>

\* contribute_to_fxpool up to its first await: the lookup, the status check and
\* the deadline check; then the live rate is requested.
fx_contribute_start(c, id, payer, currency, amount_local) ==
    /\ MayStart(fxCalls, c)
    /\ LET call == [fxCalls[c] EXCEPT !.op = "contribute", !.id = id,
                                       !.payer = payer, !.currency = Lower(currency),
                                       !.amount_local = amount_local]
       IN  fxCalls' = [fxCalls EXCEPT ![c] =
             IF id \notin DOMAIN fxpool_db THEN FxFinished(call, 404)
             ELSE IF fxpool_db[id].status # "collecting" THEN FxFinished(call, 400)
             ELSE IF now > fxpool_db[id].deadline THEN FxFinished(call, 422)
             ELSE [call EXCEPT !.pc = "get_rate"]]
    /\ UNCHANGED <<fxpool_db, fxpool_contributions_db, envVars, idemVars,
                   collectVars, poolVars, fxVars, corridorVars, webhookVars,
                   recurringVars>>

\* int((amount_local / 100) * usd_rate * 100)
AmountUsd(amount_local, usd_rate) == TruncDiv(amount_local * usd_rate.n, usd_rate.d)

\* get_live_rate has returned: the USD amount is computed and lock_rate is
\* called, which fetches the rate again.
fx_contribute_rate(c, answer) ==
    /\ fxCalls[c].pc = "get_rate"
    /\ LET call == fxCalls[c]
           usd_rate == GetLiveRate(call.currency, "usd", answer)
       IN  fxCalls' = [fxCalls EXCEPT ![c] =
             [call EXCEPT !.pc = "lock_rate", !.usd_rate = usd_rate,
                          !.amount_usd = AmountUsd(call.amount_local, usd_rate)]]
    /\ UNCHANGED <<fxpool_db, fxpool_contributions_db, envVars, idemVars,
                   collectVars, poolVars, fxVars, corridorVars, webhookVars,
                   recurringVars>>

\* lock_rate has fetched its rate: the lock is stored, then the payer's transfer
\* is requested.
fx_contribute_lock(c, answer) ==
    /\ fxCalls[c].pc = "lock_rate"
    /\ LET call == fxCalls[c]
           pool == fxpool_db[call.id]
       IN  /\ rate_lock_store' =
                 (NewLockId :> LockRate(NewLockId, call.currency, "usd",
                                        call.amount_usd, FxPoolLockMinutes,
                                        pool.max_rate_drift_pct,
                                        GetLiveRate(call.currency, "usd", answer)))
                 @@ rate_lock_store
           /\ fxCalls' = [fxCalls EXCEPT ![c] =
                 [call EXCEPT !.pc = "transfer", !.rate_lock_id = NewLockId]]
    /\ UNCHANGED <<fxpool_db, fxpool_contributions_db, drift_report, envVars,
                   idemVars, collectVars, poolVars, corridorVars, webhookVars,
                   recurringVars>>

AppendNew(list, x) ==
    IF \E i \in 1..Len(list) : list[i] = x THEN list ELSE Append(list, x)

FxContributedLocal(pool, contribution) ==
    [pool EXCEPT !.collected_usd = @ + contribution.amount_local,
                 !.contributions_count = @ + 1,
                 !.currencies_collected = AppendNew(@, contribution.currency)]

\* The pool after a contribution has been appended to its records.
FxContributed(pool, contribution) ==
    [pool EXCEPT !.collected_usd = @ + contribution.amount_usd,
                 !.contributions_count = @ + 1,
                 !.currencies_collected = AppendNew(@, contribution.currency)]

\* The payer's transfer has returned or raised: on success the contribution is
\* recorded and fxpool.contribution_received is dispatched.
fx_contribute_transfer(c, transfer_ok) ==
    /\ fxCalls[c].pc = "transfer"
    /\ LET call == fxCalls[c]
           id == call.id
           pool == fxpool_db[id]
           contribution == [payer_account_id |-> call.payer,
                            currency |-> call.currency,
                            amount_local |-> call.amount_local,
                            amount_usd |-> call.amount_usd,
                            usd_rate |-> call.usd_rate,
                            rate_lock_id |-> call.rate_lock_id,
                            nessie_transfer_id |-> NewTransferId]
       IN  /\ ledger' = Append(ledger,
                    LedgerEntry(call.payer, pool.organizer_account_id,
                                call.amount_local, <<"fxpool_contribution", id>>, 0,
                                transfer_ok))
           /\ IF ~transfer_ok
              THEN /\ fxCalls' = [fxCalls EXCEPT ![c] = FxFinished(call, 500)]
                   /\ UNCHANGED <<fxpool_db, fxpool_contributions_db, events>>
              ELSE /\ fxpool_contributions_db' =
                         [fxpool_contributions_db EXCEPT ![id] = Append(@, contribution)]
                   /\ fxpool_db' = [fxpool_db EXCEPT ![id] =
                                      FxContributed(pool, contribution)]
                   /\ events' = Append(events,
                         Event("fxpool.contribution_received", id))
                   /\ fxCalls' = [fxCalls EXCEPT ![c] =
                         [call EXCEPT !.pc = "dispatch_received"]]
    /\ UNCHANGED <<now, nessie_balance, idemVars, collectVars, poolVars, fxVars,
                   corridorVars, webhookVars,
                   recurringVars>>

DriftLoopFirstOnly(call, checked_items, pool, contributions) ==
    IF checked_items < 1
    THEN [call EXCEPT !.pc = "check_drift", !.idx = checked_items + 1]
    ELSE [call EXCEPT !.pc = "settle", !.idx = checked_items,
                      !.settle_amount = pool.collected_usd]

\* The drift loop of contribute_to_fxpool at the top of an iteration: the next
\* contribution's lock is checked, or the loop ends without drift and the
\* settlement transfer of the amount collected so far is requested.
DriftLoop(call, checked_items, pool, contributions) ==
    IF checked_items < Len(contributions)
    THEN [call EXCEPT !.pc = "check_drift", !.idx = checked_items + 1]
    ELSE [call EXCEPT !.pc = "settle", !.idx = checked_items,
                      !.settle_amount = pool.collected_usd]

\* dispatch_event has returned: the call returns unless the goal is reached.
fx_contribute_dispatched(c) ==
    /\ fxCalls[c].pc = "dispatch_received"
    /\ Dispatched(fxCalls[c].id)
    /\ LET call == fxCalls[c]
           pool == fxpool_db[call.id]
       IN  fxCalls' = [fxCalls EXCEPT ![c] =
             IF AfterDispatch(call.id, 200) = 500 THEN FxFinished(call, 500)
             ELSE IF pool.collected_usd >= pool.goal_amount_usd
             THEN DriftLoop(call, 0, pool, fxpool_contributions_db[call.id])
             ELSE FxFinished(call, 200)]
    /\ UNCHANGED <<fxpool_db, fxpool_contributions_db, envVars, idemVars,
                   collectVars, poolVars, fxVars, corridorVars, webhookVars,
                   recurringVars>>

RefundStatus(reason) ==
    IF reason = "organizer_cancelled" THEN "cancelled" ELSE "drift_refunded"

RefundEvent(reason) ==
    IF reason \in {"rate_drift", "rate_drift_simulated"}
    THEN "fxpool.rate_drifted"
    ELSE "fxpool.cancelled"

RefundAmountUsd(contribution) == contribution.amount_usd

\* The amount _trigger_fxpool_refund sends back for a contribution.
RefundAmount(contribution) == contribution.amount_local

\* The refund loop of _trigger_fxpool_refund at the top of an iteration.
FxRefundLoop(call, done_items, contributions) ==
    IF done_items < Len(contributions)
    THEN [call EXCEPT !.pc = "refund", !.idx = done_items + 1]
    ELSE [call EXCEPT !.pc = "dispatch_final", !.idx = done_items]

\* check_drift has returned for one contribution: on drift the refund path is
\* entered (_trigger_fxpool_refund up to its first await), else the loop goes on.
fx_contribute_drift(c, answer) ==
    /\ fxCalls[c].pc = "check_drift"
    /\ LET call == fxCalls[c]
           id == call.id
           pool == fxpool_db[id]
           contributions == fxpool_contributions_db[id]
           lock == rate_lock_store[contributions[call.idx].rate_lock_id]
           drift == CheckDrift(lock, GetLiveRate(lock.source_currency,
                                                 lock.target_currency, answer))
           refunding == FxRefundLoop([call EXCEPT !.reason = "rate_drift"], 0,
                                     contributions)
       IN  IF drift.drifted
           THEN /\ fxpool_db' = [fxpool_db EXCEPT ![id].status =
                                    RefundStatus("rate_drift")]
                /\ fxCalls' = [fxCalls EXCEPT ![c] = refunding]
                /\ events' = IF refunding.pc = "dispatch_final"
                             THEN Append(events, Event(RefundEvent("rate_drift"), id))
                             ELSE events
           ELSE /\ fxCalls' = [fxCalls EXCEPT ![c] =
                                  DriftLoop(call, call.idx, pool, contributions)]
                /\ UNCHANGED <<fxpool_db, events>>
    /\ UNCHANGED <<fxpool_contributions_db, now, ledger, nessie_balance, idemVars,
                   collectVars, poolVars, fxVars, corridorVars, webhookVars,
                   recurringVars>>

\* The settlement transfer has returned or raised (a failure is replaced by a
\* mock id): the pool becomes funded and fxpool.goal_reached is dispatched.
fx_contribute_settle(c, transfer_ok) ==
    /\ fxCalls[c].pc = "settle"
    /\ LET call == fxCalls[c]
           id == call.id
           pool == fxpool_db[id]
       IN  /\ ledger' = Append(ledger,
                    LedgerEntry(pool.organizer_account_id, pool.payee_account_id,
                                call.settle_amount, <<"fxpool_settlement", id>>, 0,
                                transfer_ok))
           /\ fxpool_db' = [fxpool_db EXCEPT ![id] =
                 [pool EXCEPT !.status = "funded", !.funded_at = now,
                              !.nessie_settlement_id =
                                  IF transfer_ok THEN NewTransferId
                                  ELSE 0 - NewTransferId]]
           /\ events' = Append(events, Event("fxpool.goal_reached", id))
           /\ fxCalls' = [fxCalls EXCEPT ![c] = [call EXCEPT !.pc = "dispatch_final"]]
    /\ UNCHANGED <<fxpool_contributions_db, now, nessie_balance, idemVars,
                   collectVars, poolVars, fxVars, corridorVars, webhookVars,
                   recurringVars>>

\* cancel_fxpool and simulate_rate_drift: the lookup, then _trigger_fxpool_refund
\* up to its first await.
fx_refund_start(c, id, op, reason) ==
    /\ MayStart(fxCalls, c)
    /\ LET call == [fxCalls[c] EXCEPT !.op = op, !.id = id, !.reason = reason]
       IN  IF id \notin DOMAIN fxpool_db
           THEN /\ fxCalls' = [fxCalls EXCEPT ![c] = FxFinished(call, 404)]
                /\ UNCHANGED <<fxpool_db, events>>
           ELSE LET refunding == FxRefundLoop(call, 0, fxpool_contributions_db[id])
                IN  /\ fxpool_db' = [fxpool_db EXCEPT ![id].status =
                                        RefundStatus(reason)]
                    /\ fxCalls' = [fxCalls EXCEPT ![c] = refunding]
                    /\ events' = IF refunding.pc = "dispatch_final"
                                 THEN Append(events, Event(RefundEvent(reason), id))
                                 ELSE events
    /\ UNCHANGED <<fxpool_contributions_db, now, ledger, nessie_balance, idemVars,
                   collectVars, poolVars, fxVars, corridorVars, webhookVars,
                   recurringVars>>

RefundEntryAsIfRefunded(contribution, transfer_ok, txn_id) ==
    [payer |-> contribution.payer_account_id,
     currency |-> contribution.currency,
     amount_refunded |-> contribution.amount_local,
     nessie_id |-> txn_id, error |-> "none"]

\* The entry _trigger_fxpool_refund appends to refunds for one contribution: the
\* transfer's id, or the error marker of the except branch.
RefundEntry(contribution, transfer_ok, txn_id) ==
    IF transfer_ok
    THEN [payer |-> contribution.payer_account_id,
          currency |-> contribution.currency,
          amount_refunded |-> contribution.amount_local,
          nessie_id |-> txn_id, error |-> "none"]
    ELSE [payer |-> contribution.payer_account_id,
          currency |-> "none", amount_refunded |-> None,
          nessie_id |-> None, error |-> "refund failed"]

\* A refund transfer has returned or raised: the outcome is added to refunds
\* and the loop goes on.
fx_refund(c, transfer_ok) ==
    /\ fxCalls[c].pc = "refund"
    /\ LET call == fxCalls[c]
           id == call.id
           pool == fxpool_db[id]
           contribution == fxpool_contributions_db[id][call.idx]
           outcome == RefundEntry(contribution, transfer_ok, NewTransferId)
           next == FxRefundLoop([call EXCEPT !.refunds = Append(@, outcome)],
                                call.idx, fxpool_contributions_db[id])
       IN  /\ ledger' = Append(ledger,
                    LedgerEntry(pool.organizer_account_id,
                                contribution.payer_account_id,
                                RefundAmount(contribution),
                                <<"fxpool_refund", id>>, call.idx, transfer_ok))
           /\ fxCalls' = [fxCalls EXCEPT ![c] = next]
           /\ events' = IF next.pc = "dispatch_final"
                        THEN Append(events, Event(RefundEvent(call.reason), id))
                        ELSE events
    /\ UNCHANGED <<fxpool_db, fxpool_contributions_db, now, nessie_balance,
                   idemVars, collectVars, poolVars, fxVars, corridorVars, webhookVars,
                   recurringVars>>

\* The last dispatch_event has returned: the call returns the pool.
fx_return(c) ==
    /\ fxCalls[c].pc = "dispatch_final"
    /\ Dispatched(fxCalls[c].id)
    /\ fxCalls' = [fxCalls EXCEPT ![c] = FxFinished(@, AfterDispatch(@.id, 200))]
    /\ UNCHANGED <<fxpool_db, fxpool_contributions_db, envVars, idemVars,
                   collectVars, poolVars, fxVars, corridorVars, webhookVars,
                   recurringVars>>

TickFxPool ==
    /\ Tick
    /\ UNCHANGED <<idemVars, collectVars, poolVars, fxVars, fxpoolVars, corridorVars, webhookVars,
                   recurringVars>>

\* =================================================================== Corridor
IdleCorridorCall ==
    [pc |-> "idle", op |-> "none", id |-> "none", code |-> 0,
     source_currency |-> "none", amount_target |-> 0,
     lock_duration_minutes |-> 0, max_rate_drift_pct |-> 0]

\* A call that has returned or raised: its status code.
CorridorFinished(call, code) ==
    [IdleCorridorCall EXCEPT !.pc = "done", !.op = call.op, !.id = call.id,
                             !.code = code]

\* create_corridor up to its first await, inside lock_rate.
create_corridor_start(c, id, source_currency, amount_target, lock_duration_minutes, max_rate_drift_pct) ==
    /\ MayStart(corridorCalls, c)
    /\ id \notin DOMAIN corridor_db
    /\ \A d \in DOMAIN corridorCalls :
          ~(corridorCalls[d].op = "create" /\ corridorCalls[d].id = id)
    /\ corridorCalls' = [corridorCalls EXCEPT ![c] =
          [@ EXCEPT !.pc = "lock_rate", !.op = "create", !.id = id,
                    !.source_currency = source_currency,
                    !.amount_target = amount_target,
                    !.lock_duration_minutes = lock_duration_minutes,
                    !.max_rate_drift_pct = max_rate_drift_pct]]
    /\ UNCHANGED <<corridor_db, envVars, idemVars, collectVars, poolVars, fxVars,
                   fxpoolVars, webhookVars,
                   recurringVars>>

\* lock_rate has fetched its rate: the lock and the corridor are stored and
\* corridor.rate_locked is dispatched.
create_corridor_lock(c, answer) ==
    /\ corridorCalls[c].pc = "lock_rate"
    /\ LET call == corridorCalls[c]
           rate_lock == LockRate(NewLockId, call.source_currency, "usd",
                                 call.amount_target, call.lock_duration_minutes,
                                 call.max_rate_drift_pct,
                                 GetLiveRate(call.source_currency, "usd", answer))
       IN  /\ rate_lock_store' = (NewLockId :> rate_lock) @@ rate_lock_store
           /\ corridor_db' =
                 (call.id :> [status |-> "rate_locked",
                              source_currency |-> Lower(call.source_currency),
                              target_currency |-> "usd",
                              source_account_id |-> "alice",
                              target_account_id |-> Payee,
                              amount_target_cents |-> call.amount_target,
                              amount_source_cents |-> rate_lock.amount_source_cents,
                              rate_lock |-> NewLockId,
                              nessie_transfer_id |-> None,
                              created_at |-> now,
                              remitted_at |-> None])
                 @@ corridor_db
           /\ events' = Append(events, Event("corridor.rate_locked", call.id))
           /\ corridorCalls' = [corridorCalls EXCEPT ![c] =
                                   [call EXCEPT !.pc = "dispatch_created"]]
    /\ UNCHANGED <<drift_report, now, ledger, nessie_balance, idemVars, collectVars,
                   poolVars, fxpoolVars, webhookVars,
                   recurringVars>>

\* remit_corridor goes on only for a rate_locked corridor.
MayRemit(corridor) == corridor.status = "rate_locked"

RateLockExpiredAfterGrace(rate_lock) == now > rate_lock.expires_at + 1

\* datetime.now(timezone.utc) > expires_at, for the corridor's rate lock.
RateLockExpired(rate_lock) == now > rate_lock.expires_at

\* remit_corridor up to its first await: the lookup, the status check and the
\* expiry check of the corridor's rate lock.
remit_start(c, id) ==
    /\ MayStart(corridorCalls, c)
    /\ LET call == [corridorCalls[c] EXCEPT !.op = "remit", !.id = id]
       IN  IF id \notin DOMAIN corridor_db
           THEN /\ corridorCalls' = [corridorCalls EXCEPT ![c] =
                                        CorridorFinished(call, 404)]
                /\ UNCHANGED <<corridor_db, events>>
           ELSE IF ~MayRemit(corridor_db[id])
           THEN /\ corridorCalls' = [corridorCalls EXCEPT ![c] =
                                        CorridorFinished(call, 400)]
                /\ UNCHANGED <<corridor_db, events>>
           ELSE IF RateLockExpired(rate_lock_store[corridor_db[id].rate_lock])
           THEN /\ corridor_db' = [corridor_db EXCEPT ![id].status = "expired"]
                /\ events' = Append(events, Event("corridor.rate_expired", id))
                /\ corridorCalls' = [corridorCalls EXCEPT ![c] =
                                        [call EXCEPT !.pc = "dispatch_expired"]]
           ELSE /\ corridorCalls' = [corridorCalls EXCEPT ![c] =
                                        [call EXCEPT !.pc = "check_drift"]]
                /\ UNCHANGED <<corridor_db, events>>
    /\ UNCHANGED <<now, ledger, nessie_balance, idemVars, collectVars, poolVars,
                   fxVars, fxpoolVars, webhookVars,
                   recurringVars>>

\* check_drift has returned: a drifted corridor is cancelled, else the transfer
\* is requested.
remit_drift(c, answer) ==
    /\ corridorCalls[c].pc = "check_drift"
    /\ LET call == corridorCalls[c]
           id == call.id
           lock == rate_lock_store[corridor_db[id].rate_lock]
           drift == CheckDrift(lock, GetLiveRate(lock.source_currency,
                                                 lock.target_currency, answer))
       IN  IF drift.drifted
           THEN /\ corridor_db' = [corridor_db EXCEPT ![id].status = "drift_cancelled"]
                /\ events' = Append(events, Event("corridor.drift_cancelled", id))
                /\ corridorCalls' = [corridorCalls EXCEPT ![c] =
                                        [call EXCEPT !.pc = "dispatch_drift"]]
           ELSE /\ corridorCalls' = [corridorCalls EXCEPT ![c] =
                                        [call EXCEPT !.pc = "transfer"]]
                /\ UNCHANGED <<corridor_db, events>>
    /\ UNCHANGED <<now, ledger, nessie_balance, idemVars, collectVars, poolVars,
                   fxVars, fxpoolVars, webhookVars,
                   recurringVars>>

RemitAmountTarget(corridor) == corridor.amount_target_cents

\* amount=corridor["amount_source_cents"]
RemitAmount(corridor) == corridor.amount_source_cents

LockUsedOnCopy(rate_lock) == rate_lock

\* corridor["rate_lock"]["status"] = "used": the corridor holds the dict that
\* lock_rate stored, so the write lands on the lock in rate_lock_store.
LockUsed(rate_lock) == [rate_lock EXCEPT !.status = "used"]

\* transfer has returned or raised: on success the corridor becomes remitted
\* and its rate lock used.
remit_transfer(c, transfer_ok) ==
    /\ corridorCalls[c].pc = "transfer"
    /\ LET call == corridorCalls[c]
           id == call.id
           corridor == corridor_db[id]
       IN  /\ ledger' = Append(ledger,
                    LedgerEntry(corridor.source_account_id,
                                corridor.target_account_id,
                                RemitAmount(corridor), <<"corridor", id>>, 0,
                                transfer_ok))
           /\ IF transfer_ok
              THEN /\ corridor_db' = [corridor_db EXCEPT ![id] =
                         [corridor EXCEPT !.status = "remitted",
                                          !.nessie_transfer_id = NewTransferId,
                                          !.remitted_at = now]]
                   /\ rate_lock_store' = [rate_lock_store EXCEPT
                                             ![corridor.rate_lock] = LockUsed(@)]
                   /\ events' = Append(events, Event("corridor.settled", id))
                   /\ corridorCalls' = [corridorCalls EXCEPT ![c] =
                                           [call EXCEPT !.pc = "dispatch_settled"]]
              ELSE /\ corridorCalls' = [corridorCalls EXCEPT ![c] =
                                           CorridorFinished(call, 500)]
                   /\ UNCHANGED <<corridor_db, rate_lock_store, events>>
    /\ UNCHANGED <<drift_report, now, nessie_balance, idemVars, collectVars,
                   poolVars, fxpoolVars, webhookVars,
                   recurringVars>>

\* dispatch_event has returned: the call returns the corridor or raises.
corridor_return(c) ==
    /\ corridorCalls[c].pc \in {"dispatch_created", "dispatch_expired",
                                "dispatch_drift", "dispatch_settled"}
    /\ Dispatched(corridorCalls[c].id)
    /\ corridorCalls' = [corridorCalls EXCEPT ![c] =
          CorridorFinished(@, AfterDispatch(@.id,
                                  CASE @.pc = "dispatch_created" -> 201
                                    [] @.pc = "dispatch_expired" -> 410
                                    [] @.pc = "dispatch_drift" -> 422
                                    [] OTHER -> 200))]
    /\ UNCHANGED <<corridor_db, envVars, idemVars, collectVars, poolVars, fxVars,
                   fxpoolVars, webhookVars,
                   recurringVars>>

\* check_corridor_rate: the lookup, then check_drift on the corridor's lock, whose
\* report is the response. The handler writes nothing and reads only fields of
\* the lock that are set once, so it is taken in one step.
check_corridor_rate(id, answer) ==
    IF id \notin DOMAIN corridor_db
    THEN UNCHANGED vars
    ELSE check_drift(corridor_db[id].rate_lock, answer)

TickCorridor ==
    /\ Tick
    /\ UNCHANGED <<idemVars, collectVars, poolVars, fxVars, fxpoolVars, corridorVars, webhookVars,
                   recurringVars>>

\* =================================================================== Webhooks
MaxHooks == 2

\* register_webhook: the hook is appended to the list.
register_webhook(url, hook_events) ==
    /\ Len(registered_webhooks) < MaxHooks
    /\ registered_webhooks' =
          Append(registered_webhooks, [url |-> url, events |-> hook_events])
    /\ UNCHANGED <<envVars, idemVars, collectVars, poolVars, fxVars, fxpoolVars,
                   corridorVars,
                   recurringVars>>

AfterPostPropagating(event, delivered) ==
    IF delivered
    THEN [event EXCEPT !.attempts = Append(@, [hook |-> event.hook, ok |-> TRUE]),
                       !.hook = NextHook(event.type, event.hook + 1)]
    ELSE [event EXCEPT !.attempts = Append(@, [hook |-> event.hook, ok |-> FALSE]),
                       !.hook = 0, !.raised = TRUE]

\* The event after client.post has returned or raised: an exception is caught
\* and printed, and in both cases the loop goes on with the next matching hook.
AfterPost(event, delivered) ==
    [event EXCEPT !.attempts = Append(@, [hook |-> event.hook, ok |-> delivered]),
                  !.hook = NextHook(event.type, event.hook + 1)]

\* dispatch_event after one awaited post.
dispatch_post(e, delivered) ==
    /\ events[e].hook # 0
    /\ events' = [events EXCEPT ![e] = AfterPost(@, delivered)]
    /\ UNCHANGED <<now, ledger, nessie_balance, idemVars, collectVars, poolVars,
                   fxVars, fxpoolVars, corridorVars, webhookVars,
                   recurringVars>>

\* ========================================================== Recurring collects
RecurringIds == {"rec_1"}
MaxOccurrences == {None, 0, 1, 2}

\* create_recurring_collect: the record is stored active with no occurrence.
create_recurring_collect(id, max_occurrences) ==
    /\ id \notin DOMAIN recurring_db
    /\ recurring_db' = [i \in DOMAIN recurring_db \cup {id} |->
          IF i = id
          THEN [status |-> "active", payer_account_id |-> "alice",
                payee_account_id |-> Payee, amount |-> 30,
                occurrences_count |-> 0, max_occurrences |-> max_occurrences]
          ELSE recurring_db[i]]
    /\ UNCHANGED <<recurringCalls, envVars, idemVars, collectVars, poolVars,
                   fxVars, fxpoolVars, corridorVars, webhookVars>>

\* pause_recurring: the lookup and the write, whatever the status was.
pause_recurring(id) ==
    IF id \notin DOMAIN recurring_db
    THEN UNCHANGED vars
    ELSE /\ recurring_db' = [recurring_db EXCEPT ![id].status = "paused"]
         /\ UNCHANGED <<recurringCalls, envVars, idemVars, collectVars, poolVars,
                        fxVars, fxpoolVars, corridorVars, webhookVars>>

\* cancel_recurring up to its await of dispatch_event.
cancel_recurring_start(c, id) ==
    /\ MayStart(recurringCalls, c)
    /\ LET call == [recurringCalls[c] EXCEPT !.op = "cancel", !.id = id]
       IN  IF id \notin DOMAIN recurring_db
           THEN /\ recurringCalls' = [recurringCalls EXCEPT ![c] =
                                         Finished(call, 404)]
                /\ UNCHANGED <<recurring_db, events>>
           ELSE /\ recurring_db' = [recurring_db EXCEPT ![id].status = "cancelled"]
                /\ events' = Append(events, Event("recurring.cancelled", id))
                /\ recurringCalls' = [recurringCalls EXCEPT ![c] =
                                         [call EXCEPT !.pc = "dispatch_cancelled"]]
    /\ UNCHANGED <<now, ledger, nessie_balance, idemVars, collectVars, poolVars,
                   fxVars, fxpoolVars, corridorVars, webhookVars>>

\* rec.max_occurrences and rec.occurrences_count >= rec.max_occurrences: the
\* first operand is false for None and for 0.
MaxReached(rec) ==
    /\ rec.max_occurrences # None
    /\ rec.max_occurrences # 0
    /\ rec.occurrences_count >= rec.max_occurrences

\* trigger_recurring_collect up to its await of transfer.
trigger_start(c, id) ==
    /\ MayStart(recurringCalls, c)
    /\ LET call == [recurringCalls[c] EXCEPT !.op = "trigger", !.id = id]
       IN  IF id \notin DOMAIN recurring_db
           THEN /\ recurringCalls' = [recurringCalls EXCEPT ![c] =
                                         Finished(call, 404)]
                /\ UNCHANGED recurring_db
           ELSE IF recurring_db[id].status # "active"
           THEN /\ recurringCalls' = [recurringCalls EXCEPT ![c] =
                                         Finished(call, 400)]
                /\ UNCHANGED recurring_db
           ELSE IF MaxReached(recurring_db[id])
           THEN /\ recurring_db' = [recurring_db EXCEPT ![id].status = "completed"]
                /\ recurringCalls' = [recurringCalls EXCEPT ![c] =
                                         Finished(call, 200)]
           ELSE /\ recurringCalls' = [recurringCalls EXCEPT ![c] =
                                         [call EXCEPT !.pc = "transfer"]]
                /\ UNCHANGED recurring_db
    /\ UNCHANGED <<envVars, idemVars, collectVars, poolVars, fxVars, fxpoolVars,
                   corridorVars, webhookVars>>

\* transfer has returned or raised: on success the occurrence is counted.
trigger_transfer(c, transfer_ok) ==
    /\ recurringCalls[c].pc = "transfer"
    /\ LET call == recurringCalls[c]
           id == call.id
           rec == recurring_db[id]
       IN  /\ ledger' = Append(ledger,
                    LedgerEntry(rec.payer_account_id, rec.payee_account_id,
                                rec.amount, <<"recurring", id>>, 0, transfer_ok))
           /\ IF transfer_ok
              THEN /\ recurring_db' = [recurring_db EXCEPT
                         ![id].occurrences_count = @ + 1]
                   /\ events' = Append(events,
                                       Event("recurring.collect_executed", id))
                   /\ recurringCalls' = [recurringCalls EXCEPT ![c] =
                                            [call EXCEPT !.pc = "dispatch_executed"]]
              ELSE /\ recurringCalls' = [recurringCalls EXCEPT ![c] =
                                            Finished(call, 500)]
                   /\ UNCHANGED <<recurring_db, events>>
    /\ UNCHANGED <<now, nessie_balance, idemVars, collectVars, poolVars, fxVars,
                   fxpoolVars, corridorVars, webhookVars>>

\* dispatch_event has returned: the call returns.
recurring_return(c) ==
    /\ recurringCalls[c].pc \in {"dispatch_cancelled", "dispatch_executed"}
    /\ Dispatched(recurringCalls[c].id)
    /\ recurringCalls' = [recurringCalls EXCEPT ![c] =
          Finished(@, AfterDispatch(@.id, 200))]
    /\ UNCHANGED <<recurring_db, envVars, idemVars, collectVars, poolVars, fxVars,
                   fxpoolVars, corridorVars, webhookVars>>

\* ================================================================ initial state
InitEnv ==
    /\ now = 0
    /\ ledger = <<>>
    /\ events = <<>>
    /\ nessie_balance = [a \in Payers |-> IF a = "alice" THEN 50 ELSE 0]

InitCollect ==
    /\ fake_collect_db = [id \in {} |-> None]
    /\ collectCalls = [c \in Calls |-> IdleCall]

InitPool ==
    /\ fake_pool_db = [id \in {} |-> None]
    /\ fake_contributions_db = [id \in {} |-> <<>>]
    /\ poolCalls = [c \in Calls |-> IdlePoolCall]

InitIdem ==
    /\ idempotency_store = [ck \in {} |-> NoBody]
    /\ req = [r \in Requests |-> NewRequest]
    /\ resources = <<>>

InitFx ==
    /\ rate_lock_store = [id \in {} |-> None]
    /\ drift_report = NoReport

InitFxPool ==
    /\ fxpool_db = [id \in {} |-> None]
    /\ fxpool_contributions_db = [id \in {} |-> <<>>]
    /\ fxCalls = [c \in FxCalls |-> IdleFxCall]

InitCorridor ==
    /\ corridor_db = [id \in {} |-> None]
    /\ corridorCalls = [c \in Calls |-> IdleCorridorCall]

InitWebhook == registered_webhooks = <<>>

InitRecurring ==
    /\ recurring_db = [id \in {} |-> None]
    /\ recurringCalls = [c \in Calls |-> IdleCall]

Init ==
    /\ InitEnv
    /\ InitIdem
    /\ InitCollect
    /\ InitPool
    /\ InitFx
    /\ InitFxPool
    /\ InitCorridor
    /\ InitWebhook
    /\ InitRecurring

NextIdem ==
    \/ \E r \in Requests, key \in Keys \cup {NoKey}, path \in Paths,
          valid \in BOOLEAN :
            Dispatch(r, "POST", key, path, valid)
    \/ \E r \in Requests : Dispatch(r, "GET", "k1", "/v1/collects", TRUE)
    \/ \E r \in Requests : CallNext(r)
    \/ \E r \in Requests : Respond(r)

NextCollect ==
    \/ \E id \in CollectIds, amount \in Amounts, payer \in Payers,
          expires_at \in ExpiryTimes :
            create_collect(id, amount, payer, expires_at)
    \/ \E c \in Calls, id \in CollectIds : approve_start(c, id)
    \/ \E c \in Calls, read_ok \in BOOLEAN : approve_balance(c, read_ok)
    \/ \E c \in Calls, transfer_ok \in BOOLEAN : approve_transfer(c, transfer_ok)
    \/ \E c \in Calls : approve_return(c)
    \/ \E c \in Calls, id \in CollectIds : decline_start(c, id)
    \/ \E c \in Calls : decline_return(c)
    \/ TickCollect

NextPool ==
    \/ \E id \in PoolIds, goal_amount \in Goals, deadline \in ExpiryTimes :
            create_pool(id, goal_amount, deadline)
    \/ \E c \in Calls, id \in PoolIds, input \in ContributeInputs :
            contribute_start(c, id, input[1], input[2])
    \/ \E c \in Calls, read_ok \in BOOLEAN : contribute_balance(c, read_ok)
    \/ \E c \in Calls, transfer_ok \in BOOLEAN : contribute_transfer(c, transfer_ok)
    \/ \E c \in Calls, transfer_ok \in BOOLEAN : contribute_settle(c, transfer_ok)
    \/ \E c \in Calls : pool_return(c)
    \/ \E c \in Calls, id \in PoolIds : cancel_start(c, id)
    \/ \E c \in Calls, transfer_ok \in BOOLEAN : cancel_refund(c, transfer_ok)
    \/ TickPool

LockCurrencies == {"eur", "EUR", "usd", "xyz"}
LockAmounts == {100, 4900}
LockMinutes == {30}
MaxDriftPcts == {3, 25}

NextFx ==
    \/ \E source_currency \in LockCurrencies, amount_target \in LockAmounts,
          lock_duration_minutes \in LockMinutes, max_drift_pct \in MaxDriftPcts,
          answer \in OracleAnswers :
            lock_rate(source_currency, "usd", amount_target, lock_duration_minutes,
                      max_drift_pct, answer)
    \/ \E lock_id \in 1..(MaxLocks + 1), answer \in OracleAnswers :
            check_drift(lock_id, answer)

FxGoals == {100}
FxContributeInputs == {<<"alice", "eur", 50>>, <<"bob", "eur", 100>>}
FxPoolAnswers == {a \in OracleAnswers : a # Unavailable /\ a.rate.n \in {4, 5}}

NextFxPool ==
    \/ \E id \in FxPoolIds, goal_amount_usd \in FxGoals, deadline \in ExpiryTimes :
            create_fxpool(id, goal_amount_usd, deadline, 3)
    \/ \E c \in FxCalls, id \in FxPoolIds, input \in FxContributeInputs :
            fx_contribute_start(c, id, input[1], input[2], input[3])
    \/ \E c \in FxCalls, answer \in FxPoolAnswers : fx_contribute_rate(c, answer)
    \/ \E c \in FxCalls, answer \in FxPoolAnswers : fx_contribute_lock(c, answer)
    \/ \E c \in FxCalls, transfer_ok \in BOOLEAN : fx_contribute_transfer(c, transfer_ok)
    \/ \E c \in FxCalls : fx_contribute_dispatched(c)
    \/ \E c \in FxCalls, answer \in FxPoolAnswers : fx_contribute_drift(c, answer)
    \/ \E c \in FxCalls, transfer_ok \in BOOLEAN : fx_contribute_settle(c, transfer_ok)
    \/ \E c \in FxCalls, id \in FxPoolIds :
            fx_refund_start(c, id, "cancel", "organizer_cancelled")
    \/ \E c \in FxCalls, id \in FxPoolIds :
            fx_refund_start(c, id, "force-drift", "rate_drift_simulated")
    \/ \E c \in FxCalls, transfer_ok \in BOOLEAN : fx_refund(c, transfer_ok)
    \/ \E c \in FxCalls : fx_return(c)
    \/ TickFxPool

CorridorLockMinutes == {0, 30}
CorridorDriftPcts == {3, 25}
CorridorAnswers == {a \in OracleAnswers : a # Unavailable /\ a.rate.n \in {4, 5}}

NextCorridor ==
    \/ \E c \in Calls, id \in CorridorIds, minutes \in CorridorLockMinutes, pct \in CorridorDriftPcts :
            create_corridor_start(c, id, "eur", 100, minutes, pct)
    \/ \E c \in Calls, answer \in CorridorAnswers : create_corridor_lock(c, answer)
    \/ \E c \in Calls, id \in CorridorIds : remit_start(c, id)
    \/ \E c \in Calls, answer \in CorridorAnswers : remit_drift(c, answer)
    \/ \E c \in Calls, transfer_ok \in BOOLEAN : remit_transfer(c, transfer_ok)
    \/ \E c \in Calls : corridor_return(c)
    \/ \E id \in CorridorIds, answer \in CorridorAnswers : check_corridor_rate(id, answer)
    \/ TickCorridor

\* The rate-lock store with all its users but the FX pool contribute path: the
\* FX service called directly, the corridor endpoints, and FX pools being created.
NextRateLock ==
    \/ \E answer \in CorridorAnswers : lock_rate("eur", "usd", 100, 30, 3, answer)
    \/ \E lock_id \in 1..(MaxLocks + 1), answer \in CorridorAnswers :
            check_drift(lock_id, answer)
    \/ NextCorridor
    \/ \E id \in FxPoolIds, goal_amount_usd \in FxGoals :
            create_fxpool(id, goal_amount_usd, 5, 3)

\* The two refund batches side by side: a pool with its contributions and its
\* cancel, and an FX pool with a contribution and its cancel.
\* Balance reads and the transfers of contributions succeed here; the refund
\* transfers succeed or fail.
NextRefund ==
    \/ \E id \in PoolIds : create_pool(id, 90, 5)
    \/ \E c \in Calls, id \in PoolIds, payer \in Payers :
            contribute_start(c, id, payer, 30)
    \/ \E c \in Calls : contribute_balance(c, TRUE)
    \/ \E c \in Calls : contribute_transfer(c, TRUE)
    \/ \E c \in Calls : contribute_settle(c, TRUE)
    \/ \E c \in Calls : pool_return(c)
    \/ \E c \in Calls, id \in PoolIds : cancel_start(c, id)
    \/ \E c \in Calls, transfer_ok \in BOOLEAN : cancel_refund(c, transfer_ok)
    \/ \E id \in FxPoolIds : create_fxpool(id, 1000, 5, 3)
    \/ \E c \in FxCalls, id \in FxPoolIds :
            fx_contribute_start(c, id, "alice", "eur", 50)
    \/ \E c \in FxCalls : fx_contribute_rate(c, [ok |-> TRUE, rate |-> One])
    \/ \E c \in FxCalls : fx_contribute_lock(c, [ok |-> TRUE, rate |-> One])
    \/ \E c \in FxCalls : fx_contribute_transfer(c, TRUE)
    \/ \E c \in FxCalls : fx_contribute_dispatched(c)
    \/ \E c \in FxCalls, id \in FxPoolIds :
            fx_refund_start(c, id, "cancel", "organizer_cancelled")
    \/ \E c \in FxCalls, transfer_ok \in BOOLEAN : fx_refund(c, transfer_ok)
    \/ \E c \in FxCalls : fx_return(c)

HookUrls == {"https://hook.example"}
HookEvents == {{"*"}, {"collect.declined"}}

\* Hooks, event delivery, and the Collect commands as the commands that dispatch.
NextWebhook ==
    \/ \E url \in HookUrls, hook_events \in HookEvents :
            register_webhook(url, hook_events)
    \/ \E e \in DOMAIN events, delivered \in BOOLEAN : dispatch_post(e, delivered)
    \/ \E id \in CollectIds, expires_at \in ExpiryTimes :
            create_collect(id, 30, "alice", expires_at)
    \/ \E c \in Calls, id \in CollectIds : approve_start(c, id)
    \/ \E c \in Calls, read_ok \in BOOLEAN : approve_balance(c, read_ok)
    \/ \E c \in Calls, transfer_ok \in BOOLEAN : approve_transfer(c, transfer_ok)
    \/ \E c \in Calls : approve_return(c)
    \/ \E c \in Calls, id \in CollectIds : decline_start(c, id)
    \/ \E c \in Calls : decline_return(c)
    \/ TickCollect

NextRecurring ==
    \/ \E id \in RecurringIds, max_occurrences \in MaxOccurrences :
            create_recurring_collect(id, max_occurrences)
    \/ \E id \in RecurringIds : pause_recurring(id)
    \/ \E c \in Calls, id \in RecurringIds : cancel_recurring_start(c, id)
    \/ \E c \in Calls, id \in RecurringIds : trigger_start(c, id)
    \/ \E c \in Calls, transfer_ok \in BOOLEAN : trigger_transfer(c, transfer_ok)
    \/ \E c \in Calls : recurring_return(c)

Next ==
    \/ NextIdem
    \/ NextCollect
    \/ NextPool
    \/ NextFx
    \/ NextFxPool
    \/ NextCorridor
    \/ NextWebhook
    \/ NextRecurring

\* ------------------------------------------------------- claims: Collect
TransfersFor(description) ==
    {i \in DOMAIN ledger : ledger[i].description = description /\ ledger[i].ok}

\* C2: concurrent approve calls on one pending, unexpired, funded Collect make
\* exactly one transition to approved and one ledger transfer; every other call
\* fails with the invalid-state error and issues no transfer.
C2_OneApprovalOneTransfer ==
    \A id \in CollectIds :
        /\ Cardinality(TransfersFor(<<"collect", id>>)) <= 1
        /\ Cardinality({c \in Calls :
                /\ collectCalls[c].op = "approve" /\ collectCalls[c].id = id
                /\ \/ collectCalls[c].pc = "dispatch_approved"
                   \/ collectCalls[c].pc = "done" /\ collectCalls[c].code = 200})
              <= 1

\* C11: a collect's status leaves pending only for approved, declined or expired,
\* and once it is one of those three no step changes it, also not the resumption
\* of an approve that was suspended in its ledger call.
C11_StatusStep ==
    \A id \in DOMAIN fake_collect_db :
        LET before == fake_collect_db[id].status
            after == fake_collect_db'[id].status
        IN  /\ before # "pending" => after = before
            /\ after \in {"pending", "approved", "declined", "expired"}

C11_TerminalStatusKept == [][C11_StatusStep]_vars

\* C21: an approve that finds its collect pending and past expires_at sets the
\* status to expired and dispatches collect.expired at once, before any balance
\* read or transfer, and then fails with 410: the call requests no transfer and
\* records no transfer id and no approved_at.
C21_ExpiredStep ==
    \A c \in Calls :
        LET id == collectCalls'[c].id
        IN  /\ (/\ collectCalls[c].pc = "idle"
                /\ collectCalls'[c].op = "approve"
                /\ id \in DOMAIN fake_collect_db
                /\ fake_collect_db[id].status = "pending"
                /\ now > fake_collect_db[id].expires_at)
               => (/\ collectCalls'[c].pc = "dispatch_expired"
                   /\ fake_collect_db' =
                         [fake_collect_db EXCEPT ![id].status = "expired"]
                   /\ Len(events') = Len(events) + 1
                   /\ events'[Len(events')].type = "collect.expired"
                   /\ events'[Len(events')].id = id
                   /\ ledger' = ledger)
            /\ (collectCalls[c].pc = "dispatch_expired" /\ collectCalls'[c] # collectCalls[c])
               => (/\ collectCalls'[c].pc = "done"
                   /\ collectCalls'[c].code = 410
                   /\ UNCHANGED <<fake_collect_db, ledger, events>>)

C21_ExpiredBeforeAnyTransfer == [][C21_ExpiredStep]_vars

\* An approve has failed with 410 on a collect that is now expired, with no
\* transfer requested and nothing recorded.
C21_Witness ==
    \E c \in Calls :
        LET id == collectCalls[c].id
        IN  /\ collectCalls[c].op = "approve"
            /\ collectCalls[c].pc = "done"
            /\ collectCalls[c].code = 410
            /\ fake_collect_db[id].status = "expired"
            /\ fake_collect_db[id].nessie_transfer_id = None
            /\ fake_collect_db[id].approved_at = None
            /\ ledger = <<>>
            /\ \E e \in DOMAIN events : events[e].type = "collect.expired"

\* C22: when get_balance returns less than the collect's amount, approve fails
\* with 402 and that is all it does: no transfer is requested, no event is
\* dispatched and the collect is left as it is; with a balance that covers the
\* amount the call goes on to the transfer.
C22_BalanceStep ==
    \A c \in Calls :
        (collectCalls[c].pc = "get_balance" /\ collectCalls'[c] # collectCalls[c])
        => LET balance == collectCalls'[c].balance
               collect == fake_collect_db[collectCalls[c].id]
           IN  /\ balance \in {nessie_balance[collect.payer_account_id], DemoBalance}
               /\ IF balance < collect.amount
                  THEN /\ collectCalls'[c].pc = "done"
                       /\ collectCalls'[c].code = 402
                  ELSE collectCalls'[c].pc = "transfer"
               /\ UNCHANGED <<fake_collect_db, ledger, events>>

C22_InsufficientFundsNoEffect == [][C22_BalanceStep]_vars

\* Alice, whose balance is 50, is asked for 60: the approve has failed with 402,
\* the collect is still pending and nothing was transferred or dispatched.
C22_Witness ==
    \E c \in Calls :
        LET id == collectCalls[c].id
        IN  /\ collectCalls[c].op = "approve"
            /\ collectCalls[c].code = 402
            /\ collectCalls[c].balance = 50
            /\ fake_collect_db[id].amount = 60
            /\ fake_collect_db[id].status = "pending"
            /\ fake_collect_db[id].nessie_transfer_id = None
            /\ ledger = <<>>
            /\ events = <<>>

\* C23: an approve whose transfer fails returns 500 and writes nothing to its
\* collect and dispatches nothing; as long as no transfer for a collect has
\* succeeded the collect has no transfer id and no approved_at and is not
\* approved, so it is still open to a later approve.
C23_FailedTransferStep ==
    \A c \in Calls :
        (/\ collectCalls[c].pc = "transfer"
         /\ Len(ledger') = Len(ledger) + 1
         /\ ledger'[Len(ledger')].description = <<"collect", collectCalls[c].id>>
         /\ ~ledger'[Len(ledger')].ok
         /\ collectCalls'[c] # collectCalls[c])
        => (/\ collectCalls'[c].pc = "done"
            /\ collectCalls'[c].code = 500
            /\ UNCHANGED <<fake_collect_db, events>>)

C23_NothingRecordedWithoutTransfer ==
    \A id \in DOMAIN fake_collect_db :
        TransfersFor(<<"collect", id>>) = {}
        => (/\ fake_collect_db[id].status # "approved"
            /\ fake_collect_db[id].nessie_transfer_id = None
            /\ fake_collect_db[id].approved_at = None)

C23_FailedTransferLeavesPending ==
    [][C23_FailedTransferStep]_vars /\ []C23_NothingRecordedWithoutTransfer

\* A first approve failed with 500 on its transfer and the collect stayed pending;
\* a later approve of the same collect then succeeded and recorded the second
\* transfer.
C23_Witness ==
    \E c, d \in Calls :
        LET id == collectCalls[c].id
        IN  /\ c < d
            /\ collectCalls[c].op = "approve" /\ collectCalls[c].code = 500
            /\ collectCalls[d].op = "approve" /\ collectCalls[d].code = 200
            /\ collectCalls[d].id = id
            /\ Len(ledger) = 2
            /\ ~ledger[1].ok /\ ledger[2].ok
            /\ fake_collect_db[id].status = "approved"
            /\ fake_collect_db[id].nessie_transfer_id = 2

\* C35: when the balance read fails the balance counts as sufficient, whatever
\* the amount: the approve does not fail with 402 and goes on to the transfer.
\* (The payer's account reports a positive balance, so the fallback balance in
\* the call's frame can only come from a failed read.)
C35_ReadFailureStep ==
    \A c \in Calls :
        (/\ collectCalls[c].pc = "get_balance"
         /\ collectCalls'[c] # collectCalls[c]
         /\ nessie_balance[fake_collect_db[collectCalls[c].id].payer_account_id] > 0
         /\ collectCalls'[c].balance = DemoBalance)
        => (/\ collectCalls'[c].pc = "transfer"
            /\ collectCalls'[c].code # 402)

C35_FailedReadIsSufficient == [][C35_ReadFailureStep]_vars

\* ---------------------------------------------------------- claims: Pool
RECURSIVE SumAmounts(_)
SumAmounts(contributions) ==
    IF contributions = <<>> THEN 0
    ELSE Head(contributions).amount + SumAmounts(Tail(contributions))

\* C3: in every reachable state, between any two awaited steps of concurrent
\* contribute and cancel calls, a pool's collected_amount is the sum of the
\* amounts of its stored contribution records.
C3_CollectedIsSum ==
    \A id \in DOMAIN fake_pool_db :
        fake_pool_db[id].collected_amount = SumAmounts(fake_contributions_db[id])

C3_Witness ==
    \E id \in DOMAIN fake_pool_db, c1, c2 \in Calls :
        /\ Len(fake_contributions_db[id]) = 2
        /\ fake_pool_db[id].collected_amount = 60
        /\ fake_pool_db[id].status = "cancelled"
        /\ poolCalls[c1].op = "cancel" /\ poolCalls[c1].pc = "refund"
        /\ poolCalls[c2].op = "contribute" /\ poolCalls[c2].pc = "dispatch"

\* C4: once a pool is funded with collected_amount >= goal_amount, no contribute
\* is accepted: the contribution records and collected_amount never change
\* again, also for a contribute that was suspended after its status check.
C4_FundedStep ==
    \A id \in DOMAIN fake_pool_db :
        (fake_pool_db[id].status = "funded" /\ GoalReached(fake_pool_db[id]))
        => /\ fake_contributions_db'[id] = fake_contributions_db[id]
           /\ fake_pool_db'[id].collected_amount = fake_pool_db[id].collected_amount

C4_NoContributionOnceFunded == [][C4_FundedStep]_vars

\* C5: at most one settlement transfer (organizer to final payee) is ever issued
\* for a pool, under every interleaving of contribute calls.
C5_OneSettlement ==
    \A id \in PoolIds : Cardinality(TransfersFor(<<"pool_settlement", id>>)) <= 1

\* C12: a contribute call that finds its pool cancelled is rejected at once: it
\* raises an error at its entry, before any balance read or transfer, and so
\* records nothing and leaves collected_amount and the status alone.
C12_ContributeEntry ==
    \A c \in Calls :
        (/\ poolCalls[c].pc = "idle"
         /\ poolCalls'[c].op = "contribute"
         /\ poolCalls'[c].id \in DOMAIN fake_pool_db
         /\ fake_pool_db[poolCalls'[c].id].status = "cancelled")
        => (/\ poolCalls'[c].pc = "done"
            /\ poolCalls'[c].code >= 400
            /\ UNCHANGED <<fake_pool_db, fake_contributions_db, ledger>>)

C12_CancelledPoolRejectsContribute == [][C12_ContributeEntry]_vars

\* C13: a pool's status moves only from collecting to funded or from collecting
\* to cancelled; funded and cancelled are never left, under every interleaving
\* of contribute and cancel calls.
C13_StatusStep ==
    \A id \in DOMAIN fake_pool_db :
        LET before == fake_pool_db[id].status
            after == fake_pool_db'[id].status
        IN  /\ before # "collecting" => after = before
            /\ after \in {"collecting", "funded", "cancelled"}

C13_PoolStatusForwardOnly == [][C13_StatusStep]_vars

\* The transfers requested with a description, failed ones included.
AttemptsFor(description) ==
    {i \in DOMAIN ledger : ledger[i].description = description}

\* C14: a cancel call that finds its pool funded or already cancelled fails with
\* status 400 at its entry and changes nothing (pool, refund list, contribution
\* records, ledger, events); and no contribution record is ever refunded twice.
C14_CancelEntry ==
    \A c \in Calls :
        (/\ poolCalls[c].pc = "idle"
         /\ poolCalls'[c].op = "cancel"
         /\ poolCalls'[c].id \in DOMAIN fake_pool_db
         /\ fake_pool_db[poolCalls'[c].id].status # "collecting")
        => (/\ poolCalls'[c].pc = "done"
            /\ poolCalls'[c].code = 400
            /\ UNCHANGED <<fake_pool_db, fake_contributions_db, ledger, events>>)

C14_NoSecondRefund ==
    \A id \in DOMAIN fake_pool_db :
        \A i, j \in AttemptsFor(<<"pool_refund", id>>) :
            ledger[i].item = ledger[j].item => i = j

C14_CancelOnlyFromCollecting == [][C14_CancelEntry]_vars /\ []C14_NoSecondRefund

\* A second cancel has failed with 400 on a pool whose first cancel has refunded
\* a contribution and returned.
C14_Witness ==
    \E c1, c2 \in Calls :
        /\ poolCalls[c1].op = "cancel" /\ poolCalls[c1].code = 200
        /\ poolCalls[c2].op = "cancel" /\ poolCalls[c2].code = 400
        /\ fake_pool_db[poolCalls[c2].id].status = "cancelled"
        /\ Len(fake_pool_db[poolCalls[c2].id].refund_ids) = 1
        /\ Cardinality(TransfersFor(<<"pool_refund", poolCalls[c2].id>>)) = 1

\* C15: a cancel that passes its status check sets the status to cancelled, and
\* by the end of its refund loop it has requested, for each contribution record
\* of the pool, exactly one transfer from the organizer account to the record's
\* payer for the record's amount.
C15_CancelStep ==
    \A c \in Calls :
        LET id == poolCalls'[c].id
        IN  (poolCalls'[c].op = "cancel" /\ poolCalls'[c].pc # poolCalls[c].pc)
            => /\ (poolCalls[c].pc = "idle" /\ poolCalls'[c].pc # "done")
                  => fake_pool_db'[id].status = "cancelled"
               /\ poolCalls'[c].pc = "dispatch"
                  => \A k \in 1..Len(fake_contributions_db'[id]) :
                        Cardinality({i \in DOMAIN ledger' :
                            /\ ledger'[i].description = <<"pool_refund", id>>
                            /\ ledger'[i].item = k}) = 1

C15_RefundMatchesRecord ==
    \A id \in DOMAIN fake_pool_db :
        \A i \in AttemptsFor(<<"pool_refund", id>>) :
            /\ ledger[i].item \in 1..Len(fake_contributions_db[id])
            /\ ledger[i].payer = fake_pool_db[id].organizer_account_id
            /\ ledger[i].payee = fake_contributions_db[id][ledger[i].item].payer_account_id
            /\ ledger[i].amount = fake_contributions_db[id][ledger[i].item].amount

C15_CancelRefundsEachRecord == [][C15_CancelStep]_vars /\ []C15_RefundMatchesRecord

\* A cancel has finished its loop over two records, of alice and of bob, after
\* one refund transfer that succeeded and one that failed.
C15_Witness ==
    \E c \in Calls :
        LET id == poolCalls[c].id
        IN  /\ poolCalls[c].op = "cancel"
            /\ poolCalls[c].pc = "dispatch"
            /\ poolCalls[c].idx = 2
            /\ Participants(fake_contributions_db[id]) = {"alice", "bob"}
            /\ Cardinality(TransfersFor(<<"pool_refund", id>>)) = 1
            /\ Cardinality(AttemptsFor(<<"pool_refund", id>>)) = 2

\* C16: whenever a pool is cancelled and its cancel call has returned, refund_ids
\* has one entry per stored contribution record, also when contribute calls run
\* concurrently with the cancel or arrive after it.
C16_AllRecordsRefunded ==
    \A c \in Calls :
        LET id == poolCalls[c].id
        IN  (/\ poolCalls[c].op = "cancel"
             /\ poolCalls[c].pc = "done"
             /\ poolCalls[c].code = 200
             /\ fake_pool_db[id].status = "cancelled")
            => Len(fake_pool_db[id].refund_ids) = Len(fake_contributions_db[id])

\* C39: when the settlement transfer of a pool fails, the failure is swallowed:
\* nothing is recorded on the pool, which stays funded with no settlement id,
\* pool.goal_reached is dispatched and the contribute call returns 200. Nothing
\* retries the settlement: a settlement is only ever requested by a contribute
\* call straight after its own contribution, once per call, and every call that
\* starts on a funded pool is rejected without a transfer.
C39_SettleStep ==
    \A c \in Calls :
        LET call == poolCalls[c]
            next == poolCalls'[c]
            id == call.id
            txn == ledger'[Len(ledger')]
        IN  /\ (call.pc = "settle" /\ next # call)
               => /\ Len(ledger') = Len(ledger) + 1
                  /\ txn.description = <<"pool_settlement", id>>
                  /\ next.pc = "dispatch"
                  /\ Len(events') = Len(events) + 1
                  /\ events'[Len(events')].type = "pool.goal_reached"
                  /\ fake_pool_db'[id].status = "funded"
                  /\ IF txn.ok
                     THEN fake_pool_db' = [fake_pool_db EXCEPT ![id].nessie_transfer_ids =
                                              Append(@, Len(ledger'))]
                     ELSE fake_pool_db' = fake_pool_db
            /\ (call.op = "contribute" /\ call.pc = "dispatch" /\ next # call)
               => next.pc = "done" /\ next.code = 200
            /\ (next.pc = "settle" /\ call.pc # "settle")
               => call.pc = "transfer"
            /\ (/\ call.pc = "idle" /\ next # call
                /\ next.id \in DOMAIN fake_pool_db
                /\ fake_pool_db[next.id].status = "funded")
               => (/\ next.pc = "done"
                   /\ next.code \in {400, 409}
                   /\ UNCHANGED <<ledger, fake_pool_db, fake_contributions_db>>)

C39_SettlementFailureSwallowed == [][C39_SettleStep]_vars

\* The one settlement transfer of a pool failed: the goal-reaching contribute
\* returned 200, the pool is funded with no settlement id, pool.goal_reached was
\* dispatched, and a later call on the pool was rejected.
C39_Witness ==
    \E c, d \in Calls :
        LET id == poolCalls[c].id
        IN  /\ c < d
            /\ poolCalls[c].op = "contribute" /\ poolCalls[c].code = 200
            /\ poolCalls[d].id = id /\ poolCalls[d].code \in {400, 409}
            /\ fake_pool_db[id].status = "funded"
            /\ fake_pool_db[id].nessie_transfer_ids = <<>>
            /\ Cardinality(AttemptsFor(<<"pool_settlement", id>>)) = 1
            /\ TransfersFor(<<"pool_settlement", id>>) = {}
            /\ \E e \in DOMAIN events : events[e].type = "pool.goal_reached"

C28_LockStep ==
    /\ \A lock_id \in DOMAIN rate_lock_store :
          /\ lock_id \in DOMAIN rate_lock_store'
          /\ LET old == rate_lock_store[lock_id]
                 new == rate_lock_store'[lock_id]
             IN  /\ new.rate = old.rate
                 /\ new.amount_target_cents = old.amount_target_cents
                 /\ new.amount_source_cents = old.amount_source_cents
                 /\ new.max_drift_pct = old.max_drift_pct
                 /\ new.expires_at = old.expires_at
    /\ (drift_report' # drift_report)
       => UNCHANGED <<rate_lock_store, corridor_db, fxpool_db, fxpool_contributions_db>>

C28_RateLockImmutable == [][C28_LockStep]_vars

\* A drift beyond the tolerance has been reported for the lock of a corridor
\* that is still rate_locked with its lock active, while an FX pool exists; and
\* another lock, stored by lock_rate directly, is in the store.
C28_Witness ==
    \E id \in DOMAIN corridor_db :
        /\ corridor_db[id].status = "rate_locked"
        /\ rate_lock_store[corridor_db[id].rate_lock].status = "active"
        /\ drift_report.error = "none"
        /\ drift_report.drifted
        /\ drift_report.lock_id = corridor_db[id].rate_lock
        /\ Cardinality(DOMAIN rate_lock_store) > 1
        /\ fxpool_db # [p \in {} |-> None]

\* round(num / den) for num >= 0, den > 0: the nearest integer, ties to even.
RoundNearest(num, den) ==
    LET q == num \div den
        r == num % den
    IN  IF 2 * r > den \/ (2 * r = den /\ q % 2 = 1) THEN q + 1 ELSE q

\* C33: every stored lock has a non-zero rate (a rate of 0 was replaced by 1)
\* and its amount_source is amount_target / rate rounded to the nearest minor
\* unit.
C33_AmountSourceRounded ==
    \A lock_id \in DOMAIN rate_lock_store :
        LET lock == rate_lock_store[lock_id]
        IN  /\ lock.rate.n # 0
            /\ lock.amount_source_cents =
                  RoundNearest(lock.amount_target_cents * lock.rate.d, lock.rate.n)

\* C34: get_live_rate returns, for every currency pair and every answer of the
\* rate API, 1 for identical currencies, else the API's rate when there is one,
\* else the cross-rate of the fallback table with 1 for a currency the table
\* does not know, and the rate returned is never 0; so every stored lock has a
\* non-zero rate and the division of check_drift is by a non-zero number.
C34_RateOf(src, tgt, answer) ==
    LET to_usd(currency) == IF currency \in DOMAIN FALLBACK_RATES_TO_USD
                            THEN FALLBACK_RATES_TO_USD[currency]
                            ELSE Rat(1, 1)
    IN  IF src = tgt THEN Rat(1, 1)
        ELSE IF answer.ok /\ answer.rate.n # 0 THEN answer.rate
        ELSE Rat(to_usd(src).n * to_usd(tgt).d, to_usd(src).d * to_usd(tgt).n)

C34_RateAlwaysAvailable ==
    /\ \A source_currency \in LockCurrencies, target_currency \in LockCurrencies,
          answer \in OracleAnswers :
          LET rate == GetLiveRate(source_currency, target_currency, answer)
          IN  /\ rate = C34_RateOf(Lower(source_currency), Lower(target_currency),
                                   answer)
              /\ rate.n # 0 /\ rate.d # 0
    /\ \A lock_id \in DOMAIN rate_lock_store :
          /\ rate_lock_store[lock_id].rate.n # 0
          /\ rate_lock_store[lock_id].rate.d # 0
    /\ drift_report.error = "none"
       => /\ drift_report.locked_rate.n # 0
          /\ drift_report.current_rate.d # 0

\* A lock for a currency the fallback table does not know was stored and its
\* drift was reported: both the locked and the current rate are non-zero.
C34_Witness ==
    \E lock_id \in DOMAIN rate_lock_store :
        /\ rate_lock_store[lock_id].source_currency = "xyz"
        /\ rate_lock_store[lock_id].rate = One
        /\ drift_report.error = "none"
        /\ drift_report.lock_id = lock_id
        /\ drift_report.current_rate = One
        /\ ~drift_report.drifted

\* ----------------------------------------------------- claims: Corridor
\* C17: at most one ledger transfer is ever made for a corridor, under every
\* sequence and interleaving of remit calls.
C17_OneRemittance ==
    \A id \in CorridorIds : Cardinality(TransfersFor(<<"corridor", id>>)) <= 1

\* C24: a remit that finds its corridor rate_locked and the lock's expires_at in
\* the past sets the status to expired and dispatches corridor.rate_expired at
\* once, then fails with 410; it never reaches check_drift and requests no
\* transfer.
C24_ExpiredLockStep ==
    \A c \in Calls :
        LET id == corridorCalls'[c].id
        IN  /\ (/\ corridorCalls[c].pc = "idle"
                /\ corridorCalls'[c].op = "remit"
                /\ id \in DOMAIN corridor_db
                /\ corridor_db[id].status = "rate_locked"
                /\ now > rate_lock_store[corridor_db[id].rate_lock].expires_at)
               => (/\ corridorCalls'[c].pc = "dispatch_expired"
                   /\ corridor_db' = [corridor_db EXCEPT ![id].status = "expired"]
                   /\ Len(events') = Len(events) + 1
                   /\ events'[Len(events')].type = "corridor.rate_expired"
                   /\ events'[Len(events')].id = id
                   /\ UNCHANGED <<ledger, rate_lock_store, drift_report>>)
            /\ (corridorCalls[c].pc = "dispatch_expired" /\ corridorCalls'[c] # corridorCalls[c])
               => (/\ corridorCalls'[c].pc = "done"
                   /\ corridorCalls'[c].code = 410
                   /\ UNCHANGED <<corridor_db, ledger, rate_lock_store, events>>)

C24_ExpiredLockStopsRemit == [][C24_ExpiredLockStep]_vars

\* A remit has failed with 410 on a corridor that is now expired: its lock is
\* still active, the event was dispatched and no transfer was requested.
C24_Witness ==
    \E c \in Calls :
        LET id == corridorCalls[c].id
        IN  /\ corridorCalls[c].op = "remit"
            /\ corridorCalls[c].pc = "done"
            /\ corridorCalls[c].code = 410
            /\ corridor_db[id].status = "expired"
            /\ corridor_db[id].nessie_transfer_id = None
            /\ rate_lock_store[corridor_db[id].rate_lock].status = "active"
            /\ ledger = <<>>
            /\ \E e \in DOMAIN events : events[e].type = "corridor.rate_expired"

\* A remit whose drift check reports a drift beyond the tolerance sets the
\* corridor to drift_cancelled, dispatches corridor.drift_cancelled and fails
\* with 422 without requesting a transfer.
C25_DriftStep ==
    \A c \in Calls :
        LET id == corridorCalls[c].id
        IN  /\ (/\ corridorCalls[c].pc = "check_drift"
                /\ corridorCalls'[c].pc # "check_drift"
                /\ corridorCalls'[c].pc # "transfer")
               => (/\ corridorCalls'[c].pc = "dispatch_drift"
                   /\ corridor_db' =
                         [corridor_db EXCEPT ![id].status = "drift_cancelled"]
                   /\ Len(events') = Len(events) + 1
                   /\ events'[Len(events')].type = "corridor.drift_cancelled"
                   /\ events'[Len(events')].id = id
                   /\ UNCHANGED <<ledger, rate_lock_store>>)
            /\ (corridorCalls[c].pc = "dispatch_drift" /\ corridorCalls'[c] # corridorCalls[c])
               => (/\ corridorCalls'[c].pc = "done"
                   /\ corridorCalls'[c].code = 422
                   /\ UNCHANGED <<corridor_db, ledger, rate_lock_store, events>>)

\* A corridor that is drift_cancelled stays drift_cancelled and no transfer is
\* requested for it.
C25_CancelledStep ==
    \A id \in DOMAIN corridor_db :
        corridor_db[id].status = "drift_cancelled"
        => (/\ corridor_db'[id].status = "drift_cancelled"
            /\ AttemptsFor(<<"corridor", id>>)' = AttemptsFor(<<"corridor", id>>))

\* C25: a remit that finds the rate drifted beyond the tolerance cancels the
\* corridor (drift_cancelled, corridor.drift_cancelled, 422, no transfer), and a
\* drift_cancelled corridor is never remitted afterwards.
C25_DriftCancelledNeverRemitted == [][C25_DriftStep /\ C25_CancelledStep]_vars

\* C26: a remit that has passed the expiry and drift checks requests one
\* transfer of amount_source from the source to the target account. When the
\* transfer succeeds the corridor becomes remitted with the transfer's id, the
\* lock stored under the corridor's lock id becomes used, corridor.settled is
\* dispatched and the call returns 200; when it fails the call returns 500 and
\* the corridor and the lock are left as they were.
C26_TransferStep ==
    \A c \in Calls :
        LET id == corridorCalls[c].id
            corridor == corridor_db[id]
            txn == ledger'[Len(ledger')]
        IN  /\ (corridorCalls[c].pc = "transfer" /\ corridorCalls'[c] # corridorCalls[c])
               => /\ Len(ledger') = Len(ledger) + 1
                  /\ txn.payer = corridor.source_account_id
                  /\ txn.payee = corridor.target_account_id
                  /\ txn.amount = corridor.amount_source_cents
                  /\ txn.description = <<"corridor", id>>
                  /\ IF txn.ok
                     THEN /\ corridorCalls'[c].pc = "dispatch_settled"
                          /\ corridor_db'[id].status = "remitted"
                          /\ corridor_db'[id].nessie_transfer_id = Len(ledger')
                          /\ rate_lock_store'[corridor.rate_lock].status = "used"
                          /\ events'[Len(events')].type = "corridor.settled"
                          /\ Len(events') = Len(events) + 1
                     ELSE /\ corridorCalls'[c].pc = "done"
                          /\ corridorCalls'[c].code = 500
                          /\ UNCHANGED <<corridor_db, rate_lock_store, events>>
            /\ (corridorCalls[c].pc = "dispatch_settled" /\ corridorCalls'[c] # corridorCalls[c])
               => (/\ corridorCalls'[c].pc = "done"
                   /\ corridorCalls'[c].code = 200
                   /\ UNCHANGED <<corridor_db, ledger, rate_lock_store, events>>)

C27_AmountSourceFromLock ==
    \A id \in DOMAIN corridor_db :
        LET corridor == corridor_db[id]
        IN  /\ corridor.rate_lock \in DOMAIN rate_lock_store
            /\ LET rate_lock == rate_lock_store[corridor.rate_lock]
               IN  /\ corridor.amount_source_cents = rate_lock.amount_source_cents
                   /\ corridor.amount_source_cents =
                         (corridor.amount_target_cents * rate_lock.rate.d)
                             \div rate_lock.rate.n
            /\ \A i \in AttemptsFor(<<"corridor", id>>) :
                  ledger[i].amount = corridor.amount_source_cents

C27_AmountStep ==
    \A id \in DOMAIN corridor_db :
        /\ id \in DOMAIN corridor_db'
        /\ corridor_db'[id].amount_source_cents = corridor_db[id].amount_source_cents
        /\ corridor_db'[id].rate_lock = corridor_db[id].rate_lock

C27_AmountSourceFixedAtCreation ==
    [][C27_AmountStep]_vars /\ []C27_AmountSourceFromLock

\* A corridor for 100 target cents locked at rate 5/4 has amount_source 80; a
\* rate-check has since seen another live rate, and the remit transferred 80.
C27_Witness ==
    \E id \in DOMAIN corridor_db :
        /\ corridor_db[id].status = "remitted"
        /\ corridor_db[id].amount_target_cents = 100
        /\ corridor_db[id].amount_source_cents = 80
        /\ drift_report.error = "none"
        /\ drift_report.current_rate # drift_report.locked_rate
        /\ \E i \in TransfersFor(<<"corridor", id>>) : ledger[i].amount = 80

\* ------------------------------------------------------ claims: FX pool
FxRefunds ==
    {i \in 1..Len(ledger) : ledger[i].description[1] = "fxpool_refund"}

\* C6: every refund transfer of an FX pool, whichever path issued it (organizer
\* cancel, drift found when the goal is reached, forced drift), is made from the
\* organizer to the payer of the contribution being refunded, and for that
\* contribution's amount_local, whatever the rate is by then; never for its
\* amount_usd.
C6_RefundInOriginalAmount ==
    \A i \in FxRefunds :
        LET id == ledger[i].description[2]
            contribution == fxpool_contributions_db[id][ledger[i].item]
        IN  /\ ledger[i].amount = contribution.amount_local
            /\ ledger[i].payee = contribution.payer_account_id
            /\ ledger[i].payer = fxpool_db[id].organizer_account_id

\* A contribution of 100 converted at 1.25 (amount_usd 125) has been refunded
\* after its lock drifted at the goal check, and another refund went through
\* the cancel or force-drift path.
C6_Witness ==
    \E i \in FxRefunds, c \in FxCalls :
        LET id == ledger[i].description[2]
            contribution == fxpool_contributions_db[id][ledger[i].item]
        IN  /\ ledger[i].ok
            /\ contribution.amount_local = 100
            /\ contribution.amount_usd = 125
            /\ fxCalls[c].pc = "done"
            /\ fxCalls[c].op = "contribute"
            /\ fxCalls[c].reason = "rate_drift"
            /\ Len(fxCalls[c].refunds) > 0
            /\ \E d \in FxCalls : fxCalls[d].op \in {"cancel", "force-drift"}
                                   /\ Len(fxCalls[d].refunds) > 0

\* C18: an FX pool's status leaves collecting only for funded, cancelled or
\* drift_refunded, and once it is one of those three no contribute, cancel or
\* force-drift call changes it.
C18_StatusStep ==
    \A id \in DOMAIN fxpool_db :
        LET before == fxpool_db[id].status
            after == fxpool_db'[id].status
        IN  /\ before # "collecting" => after = before
            /\ after \in {"collecting", "funded", "cancelled", "drift_refunded"}

C18_FxPoolStatusForwardOnly == [][C18_StatusStep]_vars

RECURSIVE SumAmountUsd(_)
SumAmountUsd(contributions) ==
    IF contributions = <<>> THEN 0
    ELSE Head(contributions).amount_usd + SumAmountUsd(Tail(contributions))

\* C19: in every reachable state, between any two awaited steps of concurrent
\* contribute calls included, an FX pool's collected_usd is the sum of amount_usd
\* over its stored contribution records.
C19_CollectedUsdIsSum ==
    \A id \in DOMAIN fxpool_db :
        fxpool_db[id].collected_usd = SumAmountUsd(fxpool_contributions_db[id])

\* Two contribute calls are in flight after both recorded a contribution
\* converted at 1.25: 50 as 62 and 100 as 125.
C19_Witness ==
    \E id \in DOMAIN fxpool_db, c1, c2 \in FxCalls :
        /\ c1 # c2
        /\ Len(fxpool_contributions_db[id]) = 2
        /\ fxpool_db[id].collected_usd = 187
        /\ fxCalls[c1].pc = "dispatch_received"
        /\ fxCalls[c2].pc \in {"dispatch_received", "check_drift"}

\* C29: a contribute call that finds collected_usd at or above the goal after
\* its contribution checks the drift of the locks of the pool's contributions
\* one by one. On the first drifted lock the pool goes to drift_refunded and the
\* call continues in the refund path, never requesting a settlement; only after
\* every lock was checked without drift does it request the settlement transfer
\* of collected_usd to the payee, and the pool becomes funded.
C29_GoalStep ==
    \A c \in FxCalls :
        LET call == fxCalls[c]
            next == fxCalls'[c]
            id == call.id
            pool == fxpool_db[id]
            contributions == fxpool_contributions_db[id]
            txn == ledger'[Len(ledger')]
        IN  (call.op = "contribute" /\ next # call) =>
            /\ call.pc = "dispatch_received"
               => IF pool.collected_usd >= pool.goal_amount_usd
                  THEN next.pc = "check_drift" /\ next.idx = 1
                  ELSE next.pc = "done" /\ next.code = 200
            /\ call.pc = "check_drift"
               => /\ ledger' = ledger
                  /\ \/ /\ next.pc = "check_drift"
                        /\ next.idx = call.idx + 1
                        /\ fxpool_db' = fxpool_db
                     \/ /\ next.pc = "settle"
                        /\ call.idx = Len(contributions)
                        /\ next.settle_amount = pool.collected_usd
                        /\ fxpool_db' = fxpool_db
                     \/ /\ next.pc \in {"refund", "dispatch_final"}
                        /\ next.reason = "rate_drift"
                        /\ fxpool_db' = [fxpool_db EXCEPT ![id].status = "drift_refunded"]
            /\ call.pc = "settle"
               => /\ Len(ledger') = Len(ledger) + 1
                  /\ txn.description = <<"fxpool_settlement", id>>
                  /\ txn.payer = pool.organizer_account_id
                  /\ txn.payee = pool.payee_account_id
                  /\ txn.amount = call.settle_amount
                  /\ fxpool_db'[id].status = "funded"
            /\ call.reason = "rate_drift"
               => /\ next.pc \in {"refund", "dispatch_final", "done"}
                  /\ AttemptsFor(<<"fxpool_settlement", id>>)'
                        = AttemptsFor(<<"fxpool_settlement", id>>)

\* An entry of the settlement path was requested by a call that had checked the
\* lock of every contribution then recorded.
C29_DriftCheckedBeforeSettlement ==
    \A c \in FxCalls :
        fxCalls[c].pc = "settle"
        => /\ fxCalls[c].reason = "none"
           /\ fxCalls[c].idx >= 1
           /\ fxCalls[c].settle_amount >= fxpool_db[fxCalls[c].id].goal_amount_usd

C30_ContributeStep ==
    \A c \in FxCalls :
        LET id == fxCalls[c].id
        IN  (/\ fxCalls[c].op = "contribute"
             /\ fxCalls'[c] # fxCalls[c]
             /\ id \in DOMAIN fxpool_db
             /\ fxpool_db[id].status # "collecting")
            => (/\ fxpool_contributions_db'[id] = fxpool_contributions_db[id]
                /\ fxpool_db'[id].status = fxpool_db[id].status
                /\ AttemptsFor(<<"fxpool_settlement", id>>)'
                      = AttemptsFor(<<"fxpool_settlement", id>>))

C30_SettlementRequestedOnce ==
    \A id \in DOMAIN fxpool_db :
        Cardinality(AttemptsFor(<<"fxpool_settlement", id>>)) <= 1

\* C30: under every interleaving of contribute calls at most one settlement
\* transfer is requested for an FX pool, and a contribute call acts only while
\* the pool is collecting: once another call has made the pool funded,
\* cancelled or drift_refunded, a suspended contribute appends nothing, settles
\* nothing and does not change the status.
C30_ContributeOnlyWhileCollecting ==
    [][C30_ContributeStep]_vars /\ []C30_SettlementRequestedOnce

\* C31: a contribute whose payer transfer fails aborts with nothing mutated: the
\* pool (status, collected_usd, contributions_count, currencies_collected) and
\* its contribution list are as they were, and the rate-lock store holds no lock
\* of this call, as before the call.
C31_FailedContributeStep ==
    \A c \in FxCalls :
        LET call == fxCalls[c]
            txn == ledger'[Len(ledger')]
        IN  (/\ call.op = "contribute"
             /\ call.pc = "transfer"
             /\ fxCalls'[c] # call
             /\ Len(ledger') = Len(ledger) + 1
             /\ ~txn.ok)
            => (/\ fxCalls'[c].pc = "done"
                /\ fxCalls'[c].code = 500
                /\ UNCHANGED <<fxpool_db, fxpool_contributions_db, events>>
                /\ call.rate_lock_id \notin DOMAIN rate_lock_store')

C31_FailedContributeMutatesNothing == [][C31_FailedContributeStep]_vars

\* C32: a refund batch never aborts on a failed refund transfer. Each step of
\* the loop of cancel_pool and of _trigger_fxpool_refund requests the transfer
\* for the next contribution in recorded order and appends one entry to the
\* result, the transfer's id on success and a failure marker on failure, then
\* goes on to the next contribution or, after the last one, to the final event;
\* the loop ends with one entry per contribution and the call returns 200.
C32_PoolRefundStep ==
    \A c \in Calls :
        LET call == poolCalls[c]
            next == poolCalls'[c]
            id == call.id
            txn == ledger'[Len(ledger')]
            refund_ids == fake_pool_db'[id].refund_ids
        IN  /\ (call.pc = "refund" /\ next # call)
               => /\ Len(ledger') = Len(ledger) + 1
                  /\ txn.description = <<"pool_refund", id>>
                  /\ txn.item = call.idx
                  /\ txn.item = Len(fake_pool_db[id].refund_ids) + 1
                  /\ refund_ids = Append(fake_pool_db[id].refund_ids,
                                         IF txn.ok THEN Len(ledger') ELSE 0 - Len(ledger'))
                  /\ IF call.idx < Len(fake_contributions_db[id])
                     THEN next.pc = "refund" /\ next.idx = call.idx + 1
                     ELSE /\ next.pc = "dispatch"
                          /\ Len(refund_ids) = Len(fake_contributions_db[id])
            /\ (call.op = "cancel" /\ call.pc = "dispatch" /\ next # call)
               => next.pc = "done" /\ next.code = 200

C32_FxRefundStep ==
    \A c \in FxCalls :
        LET call == fxCalls[c]
            next == fxCalls'[c]
            id == call.id
            txn == ledger'[Len(ledger')]
            entry == next.refunds[Len(next.refunds)]
        IN  /\ (call.pc = "refund" /\ next # call)
               => /\ Len(ledger') = Len(ledger) + 1
                  /\ txn.description = <<"fxpool_refund", id>>
                  /\ txn.item = call.idx
                  /\ txn.item = Len(call.refunds) + 1
                  /\ Len(next.refunds) = Len(call.refunds) + 1
                  /\ entry.payer = fxpool_contributions_db[id][call.idx].payer_account_id
                  /\ IF txn.ok
                     THEN entry.error = "none" /\ entry.nessie_id = Len(ledger')
                     ELSE entry.error = "refund failed" /\ entry.nessie_id = None
                  /\ IF call.idx < Len(fxpool_contributions_db[id])
                     THEN next.pc = "refund" /\ next.idx = call.idx + 1
                     ELSE /\ next.pc = "dispatch_final"
                          /\ Len(next.refunds) = Len(fxpool_contributions_db[id])
            /\ (call.op = "cancel" /\ call.pc = "dispatch_final" /\ next # call)
               => next.pc = "done" /\ next.code = 200 /\ next.refunds = call.refunds

C37_RefundStep ==
    \A id \in DOMAIN fxpool_db :
        AttemptsFor(<<"fxpool_settlement", id>>) # {}
        => AttemptsFor(<<"fxpool_refund", id>>)' = AttemptsFor(<<"fxpool_refund", id>>)

C37_RefundedAtMostOnce ==
    \A id \in DOMAIN fxpool_db :
        \A k \in 1..Len(fxpool_contributions_db[id]) :
            Cardinality({i \in TransfersFor(<<"fxpool_refund", id>>) :
                            ledger[i].item = k}) <= 1

\* C37: under every sequence of contribute, cancel and force-drift calls each
\* contribution of an FX pool is refunded at most once, and a pool whose
\* settlement transfer to the payee has been requested is never refunded.
C37_RefundOnceAndNeverAfterPayout ==
    [][C37_RefundStep]_vars /\ []C37_RefundedAtMostOnce

\* C38: an FX pool is funded only if a settlement transfer to the payee has
\* succeeded, and its nessie_settlement_id is the id of that transfer.
C38_FundedMeansSettled ==
    \A id \in DOMAIN fxpool_db :
        fxpool_db[id].status = "funded"
        => /\ fxpool_db[id].nessie_settlement_id
                 \in TransfersFor(<<"fxpool_settlement", id>>)
           /\ ledger[fxpool_db[id].nessie_settlement_id].payee
                 = fxpool_db[id].payee_account_id

\* ----------------------------------------------------- claims: webhooks
\* The posts made for an event to the hook at a position.
PostsTo(event, h) == {a \in DOMAIN event.attempts : event.attempts[a].hook = h}

\* C20: a failed delivery never affects the command that dispatched the event.
\* No exception leaves dispatch_event; a post, failed or not, changes no collect
\* and no call; when dispatch_event leaves its loop every matching hook has been
\* posted to exactly once and no other hook at all, whichever posts failed; and
\* the command then ends with the status code it has with successful delivery.
C20_DispatchStep ==
    /\ \A e \in DOMAIN events' :
          LET started == e \in DOMAIN events
              event == events'[e]
          IN  /\ (started /\ event # events[e])
                 => UNCHANGED <<fake_collect_db, collectCalls, ledger>>
              /\ (event.hook = 0 /\ (started => events[e].hook # 0))
                 => \A h \in 1..Len(registered_webhooks') :
                       Cardinality(PostsTo(event, h)) =
                           IF Matches(registered_webhooks'[h], event.type)
                           THEN 1 ELSE 0
    /\ \A c \in Calls :
          (collectCalls[c].pc # "done" /\ collectCalls'[c].pc = "done")
          => collectCalls'[c].code =
                CASE collectCalls[c].pc = "dispatch_declined" -> 200
                  [] collectCalls[c].pc = "dispatch_approved" -> 200
                  [] collectCalls[c].pc = "dispatch_expired" -> 410
                  [] OTHER -> collectCalls'[c].code

C20_NeverRaises == \A e \in DOMAIN events : ~events[e].raised

C20_DeliveryFailureContained == [][C20_DispatchStep]_vars /\ []C20_NeverRaises

\* A decline has returned 200 and its collect is declined after the post to the
\* first of two matching hooks failed and the post to the second went through.
C20_Witness ==
    \E c \in Calls, e \in DOMAIN events :
        /\ collectCalls[c].op = "decline"
        /\ collectCalls[c].pc = "done"
        /\ collectCalls[c].code = 200
        /\ fake_collect_db[collectCalls[c].id].status = "declined"
        /\ events[e].type = "collect.declined"
        /\ events[e].hook = 0
        /\ events[e].attempts = <<[hook |-> 1, ok |-> FALSE], [hook |-> 2, ok |-> TRUE]>>



\* ------------------------------------------------- claims: idempotency
KeyedPosts(k, p) ==
    {r \in Requests : req[r].pc # "new" /\ req[r].method = "POST"
                        /\ req[r].key = k /\ req[r].path = p}

\* C1: for concurrent POSTs with the same Idempotency-Key and path the handler
\* runs to a stored result at most once: at most one of them executes the
\* handler successfully, the others get the first one's cached result.
C1_SingleFlight ==
    \A k \in Keys, p \in Paths :
        Cardinality({r \in KeyedPosts(k, p) :
                        req[r].executed /\ req[r].status \in 200..299}) <= 1

\* C7: a keyed POST that arrives when a record exists for its (key, path) is
\* answered with exactly the stored status code and body, marked as a replay,
\* without invoking the handler and without changing any state; and a record
\* exists once a keyed POST has returned a 2xx response.
C7_ReplayStep ==
    /\ \A r \in Requests :
          (/\ req[r].pc = "new" /\ req'[r].pc # "new"
           /\ req'[r].method = "POST" /\ req'[r].key # NoKey
           /\ <<req'[r].key, req'[r].path>> \in DOMAIN idempotency_store)
          => /\ req'[r].pc = "done"
             /\ req'[r].replayed = "true"
             /\ ~req'[r].executed
             /\ req'[r].status =
                    idempotency_store[<<req'[r].key, req'[r].path>>].status_code
             /\ req'[r].body = idempotency_store[<<req'[r].key, req'[r].path>>].body
             /\ \A o \in Requests \ {r} : req'[o] = req[o]
             /\ UNCHANGED <<idempotency_store, resources, ledger>>
    /\ \A r \in Requests :
          (/\ req'[r].pc = "done" /\ req'[r].method = "POST" /\ req'[r].key # NoKey
           /\ req'[r].status \in 200..299)
          => <<req'[r].key, req'[r].path>> \in DOMAIN idempotency_store'

C7_Replay == [][C7_ReplayStep]_vars

C7_Witness ==
    \E r1, r2 \in Requests :
        /\ r1 # r2
        /\ req[r1].pc = "done" /\ req[r1].executed /\ req[r1].replayed = "false"
        /\ req[r2].pc = "done" /\ req[r2].replayed = "true" /\ ~req[r2].executed
        /\ req[r1].key = req[r2].key /\ req[r1].path = req[r2].path
        /\ req[r2].status = 201 /\ req[r2].body = req[r1].body
        /\ Len(resources) = 1

\* C8: the cache deduplicates on the pair (key, path) only: a POST without a key
\* always executes the handler, a POST is answered by replay only from a
\* successful execution with the same key and the same path, and every executed
\* create makes a resource of its own (two keys, two resources).
C8_DedupOnKeyAndPath ==
    /\ \A r \in Requests :
          req[r].pc = "done" /\ req[r].method = "POST" =>
            /\ req[r].key = NoKey => req[r].executed /\ req[r].replayed = "none"
            /\ req[r].replayed # "true" => req[r].executed
            /\ req[r].replayed = "true" =>
                  \E o \in KeyedPosts(req[r].key, req[r].path) \ {r} :
                      /\ req[o].executed
                      /\ req[o].status = req[r].status
                      /\ req[o].body = req[r].body
    /\ \A r1, r2 \in Requests :
          (/\ r1 # r2
           /\ req[r1].executed /\ req[r1].status = 201
           /\ req[r2].executed /\ req[r2].status = 201)
          => req[r1].body.id # req[r2].body.id
    /\ Len(resources) =
          Cardinality({r \in Requests : req[r].executed /\ req[r].status = 201})

C8_Witness ==
    \E r1, r2 \in Requests :
        /\ req[r1].pc = "done" /\ req[r2].pc = "done"
        /\ req[r1].key = "k1" /\ req[r2].key = "k2"
        /\ req[r1].path = req[r2].path
        /\ req[r1].status = 201 /\ req[r2].status = 201
        /\ req[r1].executed /\ req[r2].executed
        /\ req[r1].body.id # req[r2].body.id
        /\ Len(resources) = 2
        /\ DOMAIN idempotency_store =
              {<<"k1", req[r1].path>>, <<"k2", req[r1].path>>}

\* C9: a failed handler (any non-2xx outcome) leaves no record: every stored
\* record holds the 2xx response of an executed request with that key and path,
\* a failure is never replayed, and a request that finds no record executes.
C9_FailureNotCached ==
    /\ \A ck \in DOMAIN idempotency_store :
          /\ idempotency_store[ck].status_code \in 200..299
          /\ \E r \in KeyedPosts(ck[1], ck[2]) :
                /\ req[r].executed
                /\ req[r].status = idempotency_store[ck].status_code
                /\ req[r].body = idempotency_store[ck].body
    /\ \A r \in Requests :
          /\ req[r].replayed = "true" => req[r].status \in 200..299
          /\ (/\ req[r].pc = "done" /\ req[r].method = "POST" /\ req[r].key # NoKey
              /\ ~(req[r].status \in 200..299))
             => req[r].executed /\ req[r].replayed = "none"

C9_Witness ==
    \E r1, r2 \in Requests :
        /\ r1 < r2
        /\ req[r1].pc = "done" /\ req[r1].key = "k1" /\ req[r1].status = 422
        /\ req[r1].executed
        /\ req[r2].pc = "done" /\ req[r2].key = "k1" /\ req[r2].path = req[r1].path
        /\ req[r2].executed /\ req[r2].status = 201 /\ req[r2].replayed = "false"
        /\ DOMAIN idempotency_store = {<<"k1", req[r1].path>>}

\* C36: an idempotency record is written once: a record that exists for a
\* (key, path) pair is never removed and never replaced by another status or
\* body, under every interleaving of requests.
C36_RecordStep ==
    \A cache_key \in DOMAIN idempotency_store :
        /\ cache_key \in DOMAIN idempotency_store'
        /\ idempotency_store'[cache_key] = idempotency_store[cache_key]

C36_RecordsWriteOnce == [][C36_RecordStep]_vars

\* ------------------------------------------------------ claims: recurring
\* A transfer is requested for a recurring collect only while it is active.
C40_TriggerStep ==
    \A id \in DOMAIN recurring_db :
        recurring_db[id].status # "active"
        => AttemptsFor(<<"recurring", id>>)' = AttemptsFor(<<"recurring", id>>)

C40_WithinMaxOccurrences ==
    \A id \in DOMAIN recurring_db :
        recurring_db[id].max_occurrences # None
        => Cardinality(TransfersFor(<<"recurring", id>>))
              <= recurring_db[id].max_occurrences

\* C40: a recurring collect created with max_occurrences set (0 included) never
\* has more trigger transfers on the ledger than max_occurrences, whatever the
\* interleaving of trigger calls, and no transfer is requested for a recurring
\* collect that is not active (paused, cancelled or completed).
C40_TriggerBounded ==
    [][C40_TriggerStep]_vars /\ []C40_WithinMaxOccurrences

SpecIdem == Init /\ [][NextIdem]_vars

SpecCollect == Init /\ [][NextCollect]_vars

SpecPool == Init /\ [][NextPool]_vars

SpecFx == Init /\ [][NextFx]_vars

SpecFxPool == Init /\ [][NextFxPool]_vars

SpecCorridor == Init /\ [][NextCorridor]_vars

SpecRateLock == Init /\ [][NextRateLock]_vars

SpecRefund == Init /\ [][NextRefund]_vars

SpecWebhook == Init /\ [][NextWebhook]_vars

SpecRecurring == Init /\ [][NextRecurring]_vars

Spec == Init /\ [][Next]_vars

====
